---- MODULE Spec2Model ----
(***************************************************************************)
(* ADB file sync.  rsync() of android/rsync.py brings a remote directory   *)
(* of an Android device into agreement with a local directory, through the *)
(* sync: client of android/adb.py and a sidecar database (files.pickle)    *)
(* kept at the remote root.                                                *)
(*                                                                         *)
(* Strings are sequences of one-character strings, so that lower(),        *)
(* slicing, startswith() and "%s/%s" formatting are computed as the code   *)
(* computes them.  The device is the environment: its file system is       *)
(* case-insensitive and case-preserving, as /sdcard is (rsync.py compares  *)
(* names in lower case for that reason), and the name files.pickle at the  *)
(* remote root is reserved for the sidecar database.  The device removes   *)
(* the target of a push that does not end with DONE, and rm and rm -r do    *)
(* what they are asked.  /sdcard does not keep the mtime a push sends (the  *)
(* case the sidecar database is for).                                       *)
(***************************************************************************)
EXTENDS Naturals, Integers, Sequences, FiniteSets, TLC

\* ------------------------------------------------------------------ bounds

\* rsync() is called at most MaxRuns times in a row on the same trees.
MaxRuns == 2
\* At most MaxFaults faults (interrupt, transport error, FAIL status) are injected.
MaxFaults == 1

\* ----------------------------------------------------------------- strings

UPPER == <<"A", "B", "C", "D", "E", "F", "G", "H", "I", "J", "K", "L", "M",
           "N", "O", "P", "Q", "R", "S", "T", "U", "V", "W", "X", "Y", "Z">>
LOWER == <<"a", "b", "c", "d", "e", "f", "g", "h", "i", "j", "k", "l", "m",
           "n", "o", "p", "q", "r", "s", "t", "u", "v", "w", "x", "y", "z">>

lower_char(c) ==
    IF \E i \in DOMAIN UPPER : UPPER[i] = c
    THEN LOWER[CHOOSE i \in DOMAIN UPPER : UPPER[i] = c]
    ELSE c

\* str.lower()
lower(s) == [i \in 1..Len(s) |-> lower_char(s[i])]

\* str.startswith(p)
startswith(s, p) == Len(s) >= Len(p) /\ SubSeq(s, 1, Len(p)) = p

\* s[n:]
slice_from(s, n) == SubSeq(s, n + 1, Len(s))

\* "%s/%s" % (a, b), and root+'/'+name
fmt_join(a, b) == a \o <<"/">> \o b

\* android.utils.posixjoin: joins with '/', and joining the empty component
\* leaves the path as it is (the DB walk yields the root for the path '').
posixjoin(a, b) == IF b = <<>> THEN a ELSE IF a = <<>> THEN b ELSE fmt_join(a, b)

last_slash(s) ==
    LET at == {i \in 1..Len(s) : s[i] = "/"}
    IN  IF at = {} THEN 0 ELSE CHOOSE i \in at : \A j \in at : j <= i

\* os.path.basename
basename(s) == SubSeq(s, last_slash(s) + 1, Len(s))

RECURSIVE rstrip_slash(_)
rstrip_slash(s) ==
    IF s # <<>> /\ s[Len(s)] = "/" THEN rstrip_slash(SubSeq(s, 1, Len(s) - 1)) ELSE s

\* os.path.dirname: the head up to the last slash, trailing slashes stripped
\* unless the head is slashes only
dirname(s) ==
    LET head == SubSeq(s, 1, last_slash(s))
    IN  IF head # <<>> /\ rstrip_slash(head) # <<>> THEN rstrip_slash(head) ELSE head

\* _DB_NAME = 'files.pickle'
_DB_NAME == <<"f", "i", "l", "e", "s", ".", "p", "i", "c", "k", "l", "e">>

\* the prefix rsync() requires of a directory it removes: '/sdcard/dfp'
REMOVE_PREFIX == <<"/", "s", "d", "c", "a", "r", "d", "/", "d", "f", "p">>

\* ------------------------------------------------------- sets as sequences

\* The order in which a listing or a Python set is iterated: some fixed order.
RECURSIVE SeqOf(_)
SeqOf(S) ==
    IF S = {} THEN <<>>
    ELSE LET x == CHOOSE x \in S : TRUE IN <<x>> \o SeqOf(S \ {x})

Range(s) == {s[i] : i \in DOMAIN s}

\* [f(x) for x in s]
Map(s, F(_)) == [i \in DOMAIN s |-> F(s[i])]

\* dict.get(k, default)
get(d, k, default) == IF k \in DOMAIN d THEN d[k] ELSE default

\* d[k] = v
put(d, k, v) == [x \in DOMAIN d \cup {k} |-> IF x = k THEN v ELSE d[x]]

\* ------------------------------------------------------------ file systems

S_IFDIR == "S_IFDIR"
S_IFREG == "S_IFREG"
\* the None of the dirent rsync() makes up for a directory missing on the device
None == -1

\* adb.dirent
dirent(mode, size, mtime, name) ==
    [mode |-> mode, size |-> size, mtime |-> mtime, name |-> name]

\* the st_mode of a local regular file that its owner may not read: os.stat
\* returns it, open(..., 'rb') raises IOError
S_IFREG_0000 == "S_IFREG|0000"

S_ISDIR(mode) == mode = S_IFDIR
S_ISREG(mode) == mode \in {S_IFREG, S_IFREG_0000}

\* A tree is a set of entries [parent, name, mode, size, mtime].  parent is the
\* path of the directory holding the entry; on the device it is kept in lower
\* case (the device's file system is case-insensitive) and name keeps its case.
Entry(parent, name, mode, size, mtime) ==
    [parent |-> parent, name |-> name, mode |-> mode, size |-> size, mtime |-> mtime]

to_dirent(e) == dirent(e.mode, e.size, e.mtime, e.name)

\* ------------------------------------------------------------------- state

VARIABLES
    local,      \* the local tree under local_folder (never changed by rsync)
    remote,     \* the device's tree under remote_folder, the sidecar blob apart
    blob,       \* the file <remote_folder>/files.pickle on the device
    args,       \* rsync()'s arguments: remote_folder, fast, trial_run
    device,     \* the AdbDevice: whether its /sdcard keeps mtimes, _does_mtime_work
    run,        \* the number of the current rsync() call
    pc,         \* where the current call is
    db,         \* db, as _get_db returned it
    plan,       \* to_remove_dir, to_remove, to_add of the current call
    new_db,     \* new_db of the current call
    idx,        \* the position in the loop the call is in
    io,         \* the push that has sent SEND and not yet read its status
    sessions,   \* the sync: sessions of the current call
    outcome,    \* how the current call ended, as its caller sees it
    faults,     \* the faults injected so far
    log,        \* what the current call did on the device and said, in order
    prev,       \* what the previous call left: its outcome, plan and blob
    host,       \* a host-level command of adb.py and the connection it uses
    push,       \* a sync_push, frame by frame
    cmp,        \* one pass of the planning loop over given listings
    pull,       \* a sync_pull to a path of the host, step by step
    wire,       \* a sync session as the socket sees it: requests and replies
    codec,      \* a data frame: encoded by sync_send_data_*, decoded by sync_recv_data
    parse,      \* a reply to host:devices-l and the devices adb_get_devices makes of it
    outgoing    \* the frames a sync session writes and the bytes the socket took of them

vars == <<local, remote, blob, args, device, run, pc, db, plan, new_db, idx, io,
          sessions, outcome, faults, log, prev, host, push, cmp,
          pull, wire, codec, parse, outgoing>>

\* what rsync() leaves alone
aux == <<host, push, cmp, pull, wire, codec, parse, outgoing>>

\* nothing of the kind is going on
Idle == [pc |-> "idle"]

\* local_folder
local_folder == <<"L">>

\* --------------------------------------------------------------- the device

EmptyDict == [k \in {} |-> <<0, 0>>]

\* pickle.dumps(dct, -1), as the blob _put_db pushes
dumps(dct) ==
    [state |-> "ok", items |-> {<<k, dct[k][1], dct[k][2]>> : k \in DOMAIN dct}]

\* pickle.loads of a blob that was written whole
loads(b) ==
    [k \in {it[1] : it \in b.items} |->
        LET it == CHOOSE it \in b.items : it[1] = k IN <<it[2], it[3]>>]

NoBlob == [state |-> "absent", items |-> {}]
\* a blob whose push was cut short
CutBlob == [state |-> "corrupt", items |-> {}]

\* the entries of the device's tree that the path names (none or one)
Lookup(rem, path) ==
    {e \in rem : e.parent = lower(dirname(path)) /\ lower(e.name) = lower(basename(path))}

IsBlobPath(root, path) == lower(path) = lower(posixjoin(root, _DB_NAME))

\* the mode a STAT of the path answers: 0 when nothing is there
DeviceStat(rem, b, root, path) ==
    IF IsBlobPath(root, path)
    THEN IF b.state = "absent" THEN "0" ELSE S_IFREG
    ELSE IF Lookup(rem, path) = {} THEN "0"
         ELSE (CHOOSE e \in Lookup(rem, path) : TRUE).mode

DirExists(rem, root, path) ==
    lower(path) = lower(root) \/ \E e \in Lookup(rem, path) : S_ISDIR(e.mode)

\* the DENT frames a LIST of the path answers: nothing for a path that is no
\* directory, else '.', '..' and the directory's entries
DeviceList(rem, b, root, path) ==
    IF ~DirExists(rem, root, path) THEN <<>>
    ELSE <<dirent(S_IFDIR, 0, 0, <<".">>), dirent(S_IFDIR, 0, 0, <<".", ".">>)>>
         \o Map(SeqOf({e \in rem : e.parent = lower(path)}), to_dirent)
         \o (IF lower(path) = lower(root) /\ b.state # "absent"
             THEN <<dirent(S_IFREG, Cardinality(b.items), 0, _DB_NAME)>>
             ELSE <<>>)

\* the entries at or below the path
Below(rem, path) ==
    {e \in rem : \/ e \in Lookup(rem, path)
                 \/ e.parent = lower(path)
                 \/ startswith(e.parent, lower(path) \o <<"/">>)}

\* rm '<path>' and rm -r '<path>' on the device: rm removes a file, rm -r
\* whatever the path names and all below it
DeviceRm(rem, path, recursive) ==
    IF recursive THEN rem \ Below(rem, path)
    ELSE rem \ {e \in Lookup(rem, path) : S_ISREG(e.mode)}

BlobAfterRm(b, root, path, recursive) ==
    IF \/ IsBlobPath(root, path)
       \/ (recursive /\ startswith(lower(posixjoin(root, _DB_NAME)), lower(path) \o <<"/">>))
    THEN NoBlob ELSE b

\* the directories a SEND to the path creates on its way: those of its
\* ancestors below the root that do not exist yet
RECURSIVE MkDirs(_, _, _)
MkDirs(rem, root, path) ==
    LET d == dirname(path)
    IN  IF Len(d) <= Len(root) \/ DirExists(rem, root, d) THEN {}
        ELSE {Entry(lower(dirname(d)), basename(d), S_IFDIR, 0, 0)} \cup MkDirs(rem, root, d)

\* a SEND fails on the device when an ancestor of the path is a regular file
RECURSIVE BlockedByFile(_, _, _)
BlockedByFile(rem, root, path) ==
    LET d == dirname(path)
    IN  IF Len(d) <= Len(root) THEN FALSE
        ELSE (\E e \in Lookup(rem, d) : S_ISREG(e.mode)) \/ BlockedByFile(rem, root, d)

\* the device's clock, which stamps a file when /sdcard does not keep mtimes
DeviceNow == 99

\* the tree after a SEND of size bytes to the path has ended with DONE mtime:
\* the file replaces what the path named (whatever its case), keeping that name
DeviceSend(rem, root, path, size, mtime, keeps_mtime) ==
    LET old  == Lookup(rem, path)
        name == IF old = {} THEN basename(path) ELSE (CHOOSE e \in old : TRUE).name
        stamp == IF keeps_mtime THEN mtime ELSE DeviceNow
    IN  (rem \ old) \cup MkDirs(rem, root, path)
        \cup {Entry(lower(dirname(path)), name, S_IFREG, size, stamp)}

\* ------------------------------------------------------------ the two walks

\* _local_walk: the directories and the regular files of one local directory,
\* in listing order
_local_walk(tree, root) ==
    LET names == SeqOf({e \in tree : e.parent = root})
    IN  [dirs  |-> Map(SelectSeq(names, LAMBDA e : S_ISDIR(e.mode)), to_dirent),
         files |-> Map(SelectSeq(names, LAMBDA e : ~S_ISDIR(e.mode) /\ S_ISREG(e.mode)), to_dirent)]

\* the mode of a local entry whose os.stat raises OSError
S_NOSTAT == "OSError"

\* _local_walk: the paths of the directory it calls warning("Unreadable: ...") for
unreadable(tree, root) ==
    Map(SelectSeq(SeqOf({e \in tree : e.parent = root}), LAMBDA e : e.mode = S_NOSTAT),
        LAMBDA e : posixjoin(root, e.name))

\* sync_walk: LIST the directory, keep directories other than '.' and '..' and
\* regular files
sync_walk(rem, b, root, path) ==
    LET reply == DeviceList(rem, b, root, path)
    IN  [dirs  |-> SelectSeq(reply, LAMBDA d : S_ISDIR(d.mode)
                                        /\ d.name # <<".">> /\ d.name # <<".", ".">>),
         files |-> SelectSeq(reply, LAMBDA d : ~S_ISDIR(d.mode) /\ S_ISREG(d.mode))]

\* _db_walk._get_dir: the directories the DB's paths lie in, the root ('') apart
RECURSIVE db_dirs_of(_)
db_dirs_of(path) ==
    IF dirname(path) = <<>> THEN {}
    ELSE {dirname(path)} \cup db_dirs_of(dirname(path))

\* _db_walk._walk: the child directories and the files of the directory at the
\* path (relative to the root of the db); a directory rsync() made up is empty
_db_walk(dct, path) ==
    LET all_dirs == UNION {db_dirs_of(k) : k \in DOMAIN dct}
    IN  [dirs  |-> Map(SeqOf({p \in all_dirs : dirname(p) = path}),
                       LAMBDA p : dirent("0755", 0, 0, basename(p))),
         files |-> Map(SeqOf({k \in DOMAIN dct : dirname(k) = path}),
                       LAMBDA k : dirent("0644", dct[k][2], dct[k][1], basename(k)))]

\* ------------------------------------------------------------------ the plan

\* _to_dct_and_set: the dirents by lower-case name, the last of a name winning
_to_dct_and_set(dirents) ==
    [k \in {lower(dirents[i].name) : i \in DOMAIN dirents} |->
        dirents[CHOOSE i \in DOMAIN dirents :
                    /\ lower(dirents[i].name) = k
                    /\ \A j \in DOMAIN dirents : lower(dirents[j].name) = k => j <= i]]

\* a comparison that takes every pair of files to differ
_different_always(l_dirent, r_dirent, r_mtime) == TRUE

\* a comparison that takes a difference of five seconds for a change
_different_strict(l_dirent, r_dirent, r_mtime) ==
    \/ l_dirent.size # r_dirent.size
    \/ (IF l_dirent.mtime >= r_mtime THEN l_dirent.mtime - r_mtime
        ELSE r_mtime - l_dirent.mtime) >= 5

\* _different: the files might differ
_different(l_dirent, r_dirent, r_mtime) ==
    \/ l_dirent.size # r_dirent.size
    \/ (IF l_dirent.mtime >= r_mtime THEN l_dirent.mtime - r_mtime
        ELSE r_mtime - l_dirent.mtime) > 5

\* a planning loop without the exemption
DbExempt_never(extra, r_root, remote_folder) == FALSE

\* the exemption of the sidecar db from removal
DbExempt(extra, r_root, remote_folder) == extra = _DB_NAME /\ r_root = remote_folder

\* db_key: the path relative to the root, in canonical form
db_key_of(r_root, name, remote_folder) ==
    lower(slice_from(fmt_join(r_root, name), Len(remote_folder) + 1))

\* a loop that leaves the remote walk's list of directories as it was listed
r_dirs_kept(common_dirs, r_dirs_dct, r_dirs) == r_dirs

\* lines 303-305 for r_dirs: the list is emptied and filled with the remote
\* dirents of the common directories, in the order of the loop
r_dirs_rewrite(common_dirs, r_dirs_dct, r_dirs) ==
    Map(common_dirs, LAMBDA c : r_dirs_dct[c])

\* a loop that makes up the entry of every unchanged file anew
new_db_entry_made(dct, db_key, made) == made

\* lines 283-288: the entry new_db gets for an unchanged file is the db's, and
\* is made up only if the db has none
new_db_entry(dct, db_key, made) == IF db_key \in DOMAIN dct THEN dct[db_key] ELSE made

\* One pass of the planning loop over a pair of directories.  cx holds what the
\* loop reads (db, can_use_mtime, remote_folder); acc what it builds.  The
\* result carries the two rewritten directory lists.
classify(cx, l_root, l_dirs, l_files, r_root, r_dirs, r_files, acc) ==
    LET l_files_dct == _to_dct_and_set(l_files)
        r_files_dct == _to_dct_and_set(r_files)
        l_files_set == DOMAIN l_files_dct
        r_files_set == DOMAIN r_files_dct
        missing == SeqOf(l_files_set \ r_files_set)
        extra   == SelectSeq(SeqOf(r_files_set \ l_files_set),
                             LAMBDA x : ~DbExempt(x, r_root, cx.remote_folder))
        common  == SeqOf(r_files_set \cap l_files_set)
        key(c)  == db_key_of(r_root, c, cx.remote_folder)
        db_mtimes == [k \in DOMAIN acc.db_mtimes
                            \cup (IF cx.can_use_mtime THEN {key(c) : c \in Range(common)} ELSE {}) |->
                        IF cx.can_use_mtime /\ \E c \in Range(common) : key(c) = k
                        THEN r_files_dct[CHOOSE c \in Range(common) : key(c) = k].mtime
                        ELSE acc.db_mtimes[k]]
        differs(c) == _different(l_files_dct[c], r_files_dct[c], get(db_mtimes, key(c), 0))
        same    == {c \in Range(common) : ~differs(c)}
        made(c) == <<IF cx.can_use_mtime THEN r_files_dct[c].mtime ELSE l_files_dct[c].mtime,
                     r_files_dct[c].size>>
        new     == [k \in DOMAIN acc.new_db \cup {key(c) : c \in same} |->
                        IF \E c \in same : key(c) = k
                        THEN LET c == CHOOSE c \in same : key(c) = k
                             IN  new_db_entry(cx.db, k, made(c))
                        ELSE acc.new_db[k]]
        l_dirs_dct == _to_dct_and_set(l_dirs)
        r_dirs_dct0 == _to_dct_and_set(r_dirs)
        l_dirs_set == DOMAIN l_dirs_dct
        r_dirs_set == DOMAIN r_dirs_dct0 \cup l_dirs_set
        r_dirs_dct == [k \in r_dirs_set |->
                        IF k \in DOMAIN r_dirs_dct0 THEN r_dirs_dct0[k]
                        ELSE dirent("None", None, None, l_dirs_dct[k].name)]
        extra_dirs == SeqOf(r_dirs_set \ l_dirs_set)
        common_dirs == SeqOf(r_dirs_set \cap l_dirs_set)
    IN  [acc |-> [acc EXCEPT
                    !.first = FALSE,
                    !.to_add = @ \o Map(missing, LAMBDA c : [l_root |-> l_root,
                                                             l_dirent |-> l_files_dct[c],
                                                             r_root |-> r_root])
                                 \o Map(SelectSeq(common, differs),
                                        LAMBDA c : [l_root |-> l_root,
                                                    l_dirent |-> l_files_dct[c],
                                                    r_root |-> r_root]),
                    !.to_remove = @ \o Map(extra, LAMBDA x : fmt_join(r_root, r_files_dct[x].name)),
                    !.to_remove_dir = @ \o Map(extra_dirs,
                                               LAMBDA x : fmt_join(r_root, r_dirs_dct[x].name)),
                    !.db_mtimes = db_mtimes,
                    !.new_db = new],
         l_dirs |-> Map(common_dirs, LAMBDA c : l_dirs_dct[c]),
         r_dirs |-> r_dirs_rewrite(common_dirs, r_dirs_dct, r_dirs)]

\* The planning loop: izip over the local walk and the remote (or DB) walk.
\* Each walk is the stack of the directories it has still to yield; the loop
\* ends with the shorter walk, and raises when the walks fall out of step.
RECURSIVE izip_walk(_, _, _, _)
izip_walk(cx, l_walk, r_walk, acc) ==
    IF l_walk = <<>> \/ r_walk = <<>> THEN acc
    ELSE
      LET l_root == Head(l_walk)
          r_path == Head(r_walk)
          r_root == IF cx.fast THEN posixjoin(cx.remote_folder, r_path) ELSE r_path
          l == _local_walk(cx.local, l_root)
          r == IF cx.fast THEN _db_walk(cx.db, r_path)
               ELSE sync_walk(cx.remote, cx.blob, cx.remote_folder, r_path)
          st == classify(cx, l_root, l.dirs, l.files, r_root, r.dirs, r.files, acc)
      IN  IF ~(acc.first \/ lower(basename(l_root)) = lower(basename(r_root)))
          THEN [acc EXCEPT !.raised = "AssertionError",
                           !.warned = @ \o unreadable(cx.local, l_root),
                           !.listed = @ \o (IF cx.fast THEN <<>> ELSE <<r_path>>)]
          ELSE izip_walk(cx,
                 Map(st.l_dirs, LAMBDA d : posixjoin(l_root, d.name)) \o Tail(l_walk),
                 Map(st.r_dirs, LAMBDA d : IF cx.fast THEN posixjoin(r_path, d.name)
                                           ELSE fmt_join(r_path, d.name)) \o Tail(r_walk),
                 [st.acc EXCEPT !.warned = @ \o unreadable(cx.local, l_root),
                                !.listed = @ \o (IF cx.fast THEN <<>> ELSE <<r_path>>)])

\* --------------------------------------------------------------- sync sessions

Owners == {"get_db", "walk", "exec"}

\* A session: the socket (none, open, closed), what became of the QUIT of its
\* teardown, how the body of the with-statement ended, what the statement's
\* caller saw, and whether the connection has dropped under it.
NoSession == [state |-> "none", quit |-> "none", body |-> "none", seen |-> "none",
              broken |-> FALSE]

\* sync_transaction, up to the yield
sync_transaction_enter == [NoSession EXCEPT !.state = "open", !.body = "running"]

\* a teardown that lets the socket.error of its QUIT out: the socket stays
\* open and the error replaces what the body ended with
sync_transaction_exit_raising(s, body) ==
    IF s.broken
    THEN [state |-> "open", quit |-> "failed", body |-> body, seen |-> "socket.error",
          broken |-> TRUE]
    ELSE [state |-> "closed", quit |-> "sent", body |-> body, seen |-> body,
          broken |-> FALSE]

\* sync_transaction, from the yield on: QUIT is sent, failing on a dropped
\* connection with a socket.error that is passed over; the socket is closed; the
\* statement ends as its body ended
sync_transaction_exit(s, body) ==
    [state |-> "closed", quit |-> IF s.broken THEN "failed" ELSE "sent",
     body |-> body, seen |-> body, broken |-> s.broken]

\* ------------------------------------------------------------------ the log

Ev(e, path, x) == [e |-> e, path |-> path, x |-> x]

IsRm(ev) == ev.e = "shell" /\ ev.x \in {"rm", "rm -r", "rm -f"}
IsSend(ev, what) == ev.e = "SEND" /\ ev.x = what
\* what the log says of a status frame: whose push it ends, and its id
status_of(what, id) ==
    IF what = "db" THEN (IF id = "OKAY" THEN "db OKAY" ELSE "db FAIL")
    ELSE (IF id = "OKAY" THEN "file OKAY" ELSE "file FAIL")
IsOkay(ev, what) == ev.e = "status" /\ ev.x = status_of(what, "OKAY")

\* ---------------------------------------------------------- before the plan

\* _get_db: pull the blob inside a sync session and unpickle it.  A blob that
\* is not there makes sync_pull raise AdbError, which gives the empty db; one
\* that does not unpickle raises out of rsync().
_get_db(b) ==
    LET body == CASE b.state = "absent" -> "AdbError"
                  [] b.state = "corrupt" -> "UnpicklingError"
                  [] OTHER -> "ok"
        s == sync_transaction_exit(sync_transaction_enter, body)
    IN  [session |-> s,
         raised  |-> IF s.seen = "AdbError" THEN "none" ELSE IF s.seen = "ok" THEN "none" ELSE s.seen,
         db      |-> IF s.seen = "ok" THEN loads(b) ELSE EmptyDict]

\* '/sdcard/_test_mtime', the file the probe of does_mtime_work touches
_test_mtime == <<"/", "s", "d", "c", "a", "r", "d", "/",
                 "_", "t", "e", "s", "t", "_", "m", "t", "i", "m", "e">>

\* the script of does_mtime_work: the function it defines and the one it calls
mtime_script == [defines |-> "_df_test_mtime", calls |-> "df_test_mtime"]

\* what the device's shell does with the script: the function's body runs only
\* if the name called is the name defined
mtime_probe(script, keeps_mtime) ==
    IF script.calls = script.defines
    THEN [out |-> IF keeps_mtime THEN "OKAY" ELSE "FAIL",
          ran |-> <<Ev("shell", _test_mtime, "touch"), Ev("shell", _test_mtime, "rm -f")>>]
    ELSE [out |-> "not found", ran |-> <<>>]

\* does_mtime_work: the cached answer, else 'OKAY' in the probe's output
does_mtime_work(dev) ==
    IF dev.cache # <<>> THEN [val |-> dev.cache[1], ran |-> <<>>]
    ELSE LET p == mtime_probe(mtime_script, dev.mtime_works)
         IN  [val |-> (p.out = "OKAY"), ran |-> p.ran]

\* a planning that always walks the device
uses_db_never(fast) == FALSE

\* lines 226-229: with fast the right-hand walk is _db_walk(db, ''), else
\* device.walk(remote_folder)
uses_db(fast) == fast

\* rsync(), from its first line to the end of the planning loop; listed holds
\* the directories the remote walk has sent LIST for
planning(tree, rem, b, a, dev) ==
    LET g   == _get_db(b)
        m   == does_mtime_work(dev)
        cx  == [db |-> g.db, can_use_mtime |-> m.val, remote_folder |-> a.remote_folder,
                fast |-> uses_db(a.fast), local |-> tree, remote |-> rem, blob |-> b]
        acc0 == [to_add |-> <<>>, to_remove |-> <<>>, to_remove_dir |-> <<>>,
                 new_db |-> EmptyDict, first |-> TRUE, raised |-> "none",
                 db_mtimes |-> [k \in DOMAIN g.db |-> g.db[k][1]], warned |-> <<>>,
                 listed |-> <<>>]
        acc == izip_walk(cx, <<local_folder>>,
                         <<IF uses_db(a.fast) THEN <<>> ELSE a.remote_folder>>, acc0)
    IN  [get_db |-> g.session,
         raised |-> IF g.raised # "none" THEN g.raised ELSE acc.raised,
         db |-> g.db,
         can_use_mtime |-> m.val,
         ran |-> IF g.raised # "none" THEN <<>> ELSE m.ran,
         walked |-> g.raised = "none" /\ ~uses_db(a.fast),
         to_add |-> acc.to_add, to_remove |-> acc.to_remove,
         to_remove_dir |-> acc.to_remove_dir, new_db |-> acc.new_db,
         warned |-> IF g.raised # "none" THEN <<>> ELSE acc.warned,
         listed |-> IF g.raised # "none" THEN <<>> ELSE acc.listed]

\* ----------------------------------------------------------------- rsync()

\* the with-block with its loop of adds moved before the removals
ExecOrder_adds_first == <<"checkpoint", "adds", "rmdirs", "rmfiles", "final">>

\* the with-block with its first _put_db moved behind the removals
ExecOrder_late_checkpoint == <<"rmdirs", "rmfiles", "checkpoint", "adds", "final">>

\* the statements of rsync()'s with-block, in the order they are written
ExecOrder == <<"checkpoint", "rmdirs", "rmfiles", "adds", "final">>

\* the statement after one of them; the autosave is inside the loop of adds
after(stmt) ==
    IF stmt = "autosave" THEN "adds"
    ELSE LET i == CHOOSE i \in DOMAIN ExecOrder : ExecOrder[i] = stmt
         IN  IF i = Len(ExecOrder) THEN "exit" ELSE ExecOrder[i + 1]

\* an rsync() that goes on to the with-block whatever trial_run is
after_plan_always_open(trial_run) == "open"

\* where rsync() goes once the plan is made: a trial run only reports
after_plan(trial_run) == IF trial_run THEN "return" ELSE "open"

\* a loop of directory removals without the guard
may_rmdir_always(r_full) == TRUE

\* a guard that lets no directory be removed
may_rmdir_never(r_full) == FALSE

\* the guard on removing a directory
may_rmdir(r_full) == startswith(r_full, REMOVE_PREFIX)

\* an entry that records one byte more than the file has
db_entry_size_off(l_dirent) == <<l_dirent.mtime, l_dirent.size + 1>>

\* an entry that records the time of the push in place of the file's mtime
db_entry_push_time(l_dirent) == <<DeviceNow, l_dirent.size>>

\* new_db's entry for a file that is pushed
db_entry(l_dirent) == <<l_dirent.mtime, l_dirent.size>>

\* a sync_recv_status that takes a FAIL frame as it takes OKAY
sync_recv_status_silent(id) == "none"

\* sync_recv_status: what reading a status frame of this id raises
sync_recv_status(id) == IF id = "OKAY" THEN "none" ELSE "AdbError"

NoPlan == [to_add |-> <<>>, to_remove |-> <<>>, to_remove_dir |-> <<>>]

InBlock == pc \in Range(ExecOrder) \cup {"autosave"}

blob_path == posixjoin(args.remote_folder, _DB_NAME)

\* the body of the with-block raises
Raise(exc) ==
    /\ sessions' = [sessions EXCEPT !.exec.body = exc]
    /\ pc' = "exit"

\* what rsync() does with the plan it has made: a trial run returns, an
\* exception of the planning raises, else the with-block is entered
PlanWith(p, goes) ==
    /\ db' = p.db
    /\ plan' = [to_add |-> p.to_add, to_remove |-> p.to_remove,
                to_remove_dir |-> p.to_remove_dir]
    /\ new_db' = p.new_db
    /\ device' = [device EXCEPT !.cache = IF p.get_db.seen \in {"ok", "AdbError"}
                                          THEN <<p.can_use_mtime>> ELSE @]
    /\ log' = log \o p.ran \o Map(p.warned, LAMBDA q : Ev("warning", q, "Unreadable"))
                   \o Map(p.listed, LAMBDA q : Ev("LIST", q, "walk"))
    /\ sessions' = [get_db |-> p.get_db,
                    walk   |-> IF ~p.walked THEN NoSession
                               ELSE IF goes = "open" THEN sync_transaction_enter
                               ELSE sync_transaction_exit(sync_transaction_enter,
                                                          "GeneratorExit"),
                    exec   |-> NoSession]
    /\ pc' = IF goes = "open" THEN "open" ELSE "done"
    /\ outcome' = IF goes = "raise" THEN p.raised
                  ELSE IF goes = "open" THEN "none" ELSE "ok"

\* where rsync() goes with the plan
goes_with(p, trial_run) == IF p.raised # "none" THEN "raise" ELSE after_plan(trial_run)

PlanGoes(p) == PlanWith(p, goes_with(p, args.trial_run))

\* lines 216-316: load the db, probe the device, walk and classify; a trial
\* run returns here
Plan ==
    /\ pc = "plan"
    /\ PlanGoes(planning(local, remote, blob, args, device))
    /\ UNCHANGED <<local, remote, blob, args, run, idx, io, faults, prev>>
    /\ UNCHANGED aux

\* line 319: with device.sync_transaction() as sock
Open ==
    /\ pc = "open"
    /\ sessions' = [sessions EXCEPT !.exec = sync_transaction_enter]
    /\ pc' = ExecOrder[1]
    /\ idx' = 1
    /\ UNCHANGED <<local, remote, blob, args, device, run, db, plan, new_db, io,
                   outcome, faults, log, prev>>
    /\ UNCHANGED aux

\* _put_db, up to the last DATA frame: SEND opens the blob for writing
PutDbBegin ==
    /\ pc \in {"checkpoint", "autosave", "final"}
    /\ io = <<>>
    /\ io' = <<[what |-> "db", path |-> blob_path, blocked |-> FALSE,
                size |-> 0, mtime |-> 0]>>
    /\ blob' = CutBlob
    /\ log' = Append(log, Ev("SEND", blob_path, "db"))
    /\ UNCHANGED <<local, remote, args, device, run, pc, db, plan, new_db, idx,
                   sessions, outcome, faults, prev>>
    /\ UNCHANGED aux

\* lines 343-349, up to the last DATA frame of the push: new_db gets the file's
\* entry; sync_push stats the remote path, raises if it is a directory, opens
\* the local file, which raises if it cannot be read, else sends SEND and the
\* data
AddBegin ==
    /\ pc = "adds"
    /\ io = <<>>
    /\ idx <= Len(plan.to_add)
    /\ LET it == plan.to_add[idx]
           r_full == fmt_join(it.r_root, it.l_dirent.name)
           db_key == lower(slice_from(r_full, Len(args.remote_folder) + 1))
           mode == DeviceStat(remote, blob, args.remote_folder, r_full)
           blocked == BlockedByFile(remote, args.remote_folder, r_full)
       IN  /\ new_db' = put(new_db, db_key, db_entry(it.l_dirent))
           /\ IF mode # "0" /\ S_ISDIR(mode)
              THEN /\ Raise("AdbError")
                   /\ log' = Append(log, Ev("raise", r_full, "is S_ISDIR"))
                   /\ UNCHANGED <<remote, io>>
              ELSE IF it.l_dirent.mode = S_IFREG_0000
              THEN /\ Raise("IOError")
                   /\ log' = Append(log, Ev("raise", r_full, "IOError"))
                   /\ UNCHANGED <<remote, io>>
              ELSE /\ io' = <<[what |-> "file", path |-> r_full, blocked |-> blocked,
                               size |-> it.l_dirent.size, mtime |-> it.l_dirent.mtime]>>
                   /\ remote' = IF blocked THEN remote
                                ELSE DeviceSend(remote, args.remote_folder, r_full, 0,
                                                it.l_dirent.mtime, device.mtime_works)
                   /\ log' = Append(log, Ev("SEND", r_full, "file"))
                   /\ UNCHANGED <<pc, sessions>>
    /\ UNCHANGED <<local, blob, args, device, run, db, plan, idx, outcome, faults, prev>>
    /\ UNCHANGED aux

\* what a push that did not end with OKAY leaves of its target: nothing, the
\* device unlinks the file it was writing
Leftover(rem, b) ==
    IF io = <<>> THEN [remote |-> rem, blob |-> b]
    ELSE IF io[1].what = "db" THEN [remote |-> rem, blob |-> NoBlob]
    ELSE [remote |-> rem \ {e \in Lookup(rem, io[1].path) : S_ISREG(e.mode)}, blob |-> b]

\* DONE is sent and the status frame read: the push ends, and the device has
\* the file whole (OKAY) or not at all (FAIL)
PushEnd(id) ==
    LET p == io[1]
        r == sync_recv_status(id)
        left == Leftover(remote, blob)
    IN  /\ io' = <<>>
        /\ log' = Append(log, Ev("status", p.path, status_of(p.what, id)))
        /\ remote' = IF p.what = "db" THEN remote
                     ELSE IF id = "OKAY"
                     THEN DeviceSend(remote, args.remote_folder, p.path, p.size, p.mtime,
                                     device.mtime_works)
                     ELSE left.remote
        /\ blob' = IF p.what # "db" THEN blob
                   ELSE IF id = "OKAY" THEN dumps(new_db) ELSE left.blob
        /\ IF r # "none"
           THEN Raise(r) /\ UNCHANGED idx
           ELSE /\ UNCHANGED sessions
                /\ IF p.what = "db"
                   THEN /\ pc' = after(pc)
                        /\ idx' = IF pc = "autosave" THEN idx ELSE 1
                   ELSE /\ idx' = idx + 1
                        \* lines 360-363: t > t_savedb, as the clock has it
                        /\ \E due \in BOOLEAN : pc' = IF due THEN "autosave" ELSE "adds"

PutDbEnd ==
    /\ InBlock /\ io # <<>> /\ io[1].what = "db"
    /\ PushEnd("OKAY")
    /\ UNCHANGED <<local, args, device, run, db, plan, new_db, outcome, faults, prev>>
    /\ UNCHANGED aux

AddEnd ==
    /\ InBlock /\ io # <<>> /\ io[1].what = "file"
    /\ PushEnd(IF io[1].blocked THEN "FAIL" ELSE "OKAY")
    /\ UNCHANGED <<local, args, device, run, db, plan, new_db, outcome, faults, prev>>
    /\ UNCHANGED aux

\* lines 323-329: one directory of to_remove_dir
RmDir ==
    /\ pc = "rmdirs"
    /\ idx <= Len(plan.to_remove_dir)
    /\ LET r_full == plan.to_remove_dir[idx]
       IN  IF ~may_rmdir(r_full)
           THEN /\ log' = Append(log, Ev("warning", r_full, "rmdir"))
                /\ UNCHANGED <<remote, blob>>
           ELSE /\ log' = Append(log, Ev("shell", r_full, "rm -r"))
                /\ remote' = DeviceRm(remote, r_full, TRUE)
                /\ blob' = BlobAfterRm(blob, args.remote_folder, r_full, TRUE)
    /\ idx' = idx + 1
    /\ UNCHANGED <<local, args, device, run, pc, db, plan, new_db, io, sessions,
                   outcome, faults, prev>>
    /\ UNCHANGED aux

\* lines 331-334: one file of to_remove
RmFile ==
    /\ pc = "rmfiles"
    /\ idx <= Len(plan.to_remove)
    /\ LET r_full == plan.to_remove[idx]
       IN  /\ log' = Append(log, Ev("shell", r_full, "rm"))
           /\ remote' = DeviceRm(remote, r_full, FALSE)
           /\ blob' = BlobAfterRm(blob, args.remote_folder, r_full, FALSE)
    /\ idx' = idx + 1
    /\ UNCHANGED <<local, args, device, run, pc, db, plan, new_db, io, sessions,
                   outcome, faults, prev>>
    /\ UNCHANGED aux

\* a loop has gone through its list
LoopEnd ==
    /\ \/ pc = "rmdirs" /\ idx > Len(plan.to_remove_dir)
       \/ pc = "rmfiles" /\ idx > Len(plan.to_remove)
       \/ pc = "adds" /\ idx > Len(plan.to_add)
    /\ io = <<>>
    /\ pc' = after(pc)
    /\ idx' = 1
    /\ UNCHANGED <<local, remote, blob, args, device, run, db, plan, new_db, io,
                   sessions, outcome, faults, log, prev>>
    /\ UNCHANGED aux

\* ------------------------------------------------------------------- faults

\* The device answers a push with FAIL (it cannot write the file).
FailStatus ==
    /\ InBlock /\ io # <<>> /\ ~io[1].blocked
    /\ faults < MaxFaults
    /\ faults' = faults + 1
    /\ PushEnd("FAIL")
    /\ UNCHANGED <<local, args, device, run, db, plan, new_db, outcome, prev>>
    /\ UNCHANGED aux

\* The process is interrupted (KeyboardInterrupt) inside the with-block.
Interrupt ==
    /\ InBlock
    /\ faults < MaxFaults
    /\ faults' = faults + 1
    /\ remote' = Leftover(remote, blob).remote
    /\ blob' = Leftover(remote, blob).blob
    /\ io' = <<>>
    /\ log' = Append(log, Ev("interrupt", <<>>, pc))
    /\ Raise("KeyboardInterrupt")
    /\ UNCHANGED <<local, args, device, run, db, plan, new_db, idx, outcome, prev>>
    /\ UNCHANGED aux

\* The connection of the sync session drops: the write or read the body is at
\* raises socket.error.
TransportError ==
    /\ InBlock
    /\ faults < MaxFaults
    /\ \/ io # <<>>
       \/ pc \in {"checkpoint", "autosave", "final"}
       \/ pc = "adds" /\ idx <= Len(plan.to_add)
    /\ faults' = faults + 1
    /\ remote' = Leftover(remote, blob).remote
    /\ blob' = Leftover(remote, blob).blob
    /\ new_db' = IF pc = "adds" /\ io = <<>>
                 THEN LET it == plan.to_add[idx]
                          r_full == fmt_join(it.r_root, it.l_dirent.name)
                      IN  put(new_db, lower(slice_from(r_full, Len(args.remote_folder) + 1)),
                              db_entry(it.l_dirent))
                 ELSE new_db
    /\ io' = <<>>
    /\ sessions' = [sessions EXCEPT !.exec.body = "socket.error", !.exec.broken = TRUE]
    /\ pc' = "exit"
    /\ UNCHANGED <<local, args, device, run, db, plan, idx, outcome, log, prev>>
    /\ UNCHANGED aux

\* The connection drops after the body's last statement, before the teardown.
Drop ==
    /\ pc = "exit"
    /\ sessions.exec.body = "running"
    /\ ~sessions.exec.broken
    /\ faults < MaxFaults
    /\ faults' = faults + 1
    /\ sessions' = [sessions EXCEPT !.exec.broken = TRUE]
    /\ UNCHANGED <<local, remote, blob, args, device, run, pc, db, plan, new_db, idx,
                   io, outcome, log, prev>>
    /\ UNCHANGED aux

\* ------------------------------------------------------- the end of a call

\* The with-block is left: the session is torn down, the suspended remote walk
\* is finalised with the frame, and rsync() returns or raises.
Exit ==
    /\ pc = "exit"
    /\ LET s == sessions.exec
           e == sync_transaction_exit(s, IF s.body = "running" THEN "ok" ELSE s.body)
       IN  /\ sessions' = [sessions EXCEPT
                              !.exec = e,
                              !.walk = IF @.state = "open"
                                       THEN sync_transaction_exit(@, "GeneratorExit") ELSE @]
           /\ outcome' = e.seen
           /\ log' = Append(log, Ev("QUIT", <<>>, e.quit))
    /\ pc' = "done"
    /\ UNCHANGED <<local, remote, blob, args, device, run, db, plan, new_db, idx, io,
                   faults, prev>>
    /\ UNCHANGED aux

\* rsync() is called again, after a call that returned or was interrupted, with
\* the same arguments and the trees as they are.
Rerun ==
    /\ pc = "done"
    /\ outcome \in {"ok", "KeyboardInterrupt"}
    /\ run < MaxRuns
    /\ run' = run + 1
    /\ prev' = [outcome |-> outcome, plan |-> plan, new_db |-> new_db, blob |-> blob,
                remote |-> remote, log |-> log]
    /\ pc' = "plan"
    /\ db' = EmptyDict
    /\ plan' = NoPlan
    /\ new_db' = EmptyDict
    /\ idx' = 1
    /\ io' = <<>>
    /\ sessions' = [o \in Owners |-> NoSession]
    /\ outcome' = "none"
    /\ log' = <<>>
    /\ UNCHANGED <<local, remote, blob, args, device, faults>>
    /\ UNCHANGED aux

\* ------------------------------------------------------------ initial states

\* '/sdcard/dfp' and '/sdcard/x'
RemoteFolders == {REMOVE_PREFIX, <<"/", "s", "d", "c", "a", "r", "d", "/", "x">>}

\* The two trees rsync() is given.  The local folder has a file 'a' of one or
\* two bytes and may have a directory 'd' with a file 'c'; the device has, under
\* names that differ in case, nothing, a file or a directory for 'a', nothing or
\* the directory with its file for 'd', and may have a file 'b' or a directory
\* 'e' with a file 'x' that the local folder has not; a remote folder outside
\* '/sdcard/dfp' always has that directory.
Trees(root) ==
    LET l_a(size) == {Entry(local_folder, <<"a">>, S_IFREG, size, 10)}
        l_d == {Entry(local_folder, <<"d">>, S_IFDIR, 0, 10),
                Entry(fmt_join(local_folder, <<"d">>), <<"c">>, S_IFREG, 1, 10)}
        r_A == {Entry(root, <<"A">>, S_IFREG, 1, 10)}
        r_a == {Entry(root, <<"a">>, S_IFDIR, 0, 10)}
        r_D == {Entry(root, <<"D">>, S_IFDIR, 0, 10),
                Entry(fmt_join(root, <<"d">>), <<"c">>, S_IFREG, 1, 10)}
        r_b == {Entry(root, <<"b">>, S_IFREG, 1, 10)}
        r_e == {Entry(root, <<"e">>, S_IFDIR, 0, 10),
                Entry(fmt_join(root, <<"e">>), <<"x">>, S_IFREG, 1, 10)}
    IN  {[local |-> a[1] \cup d[1], remote |-> a[2] \cup d[2] \cup x] :
            a \in {<<l_a(1), {}>>, <<l_a(1), r_A>>, <<l_a(2), r_A>>, <<l_a(1), r_a>>},
            d \in {<<{}, {}>>, <<l_d, {}>>, <<l_d, r_D>>},
            x \in IF root = REMOVE_PREFIX THEN {{}, r_b, r_e} ELSE {r_e}}

\* the db that knows every regular file of the tree, with one mtime for all
FullDb(rem, root, mtime) ==
    LET files == {e \in rem : S_ISREG(e.mode)}
        key(e) == lower(slice_from(fmt_join(e.parent, e.name), Len(root) + 1))
    IN  [k \in {key(e) : e \in files} |->
            <<mtime, (CHOOSE e \in files : key(e) = k).size>>]

Blobs(rem, root) == {NoBlob, dumps(FullDb(rem, root, 10))}

Init ==
    /\ args \in [remote_folder : RemoteFolders, fast : BOOLEAN, trial_run : BOOLEAN]
    /\ \E t \in Trees(args.remote_folder) : local = t.local /\ remote = t.remote
    /\ blob \in Blobs(remote, args.remote_folder)
    /\ device \in [mtime_works : {FALSE}, cache : {<<>>}]
    /\ run = 1
    /\ pc = "plan"
    /\ db = EmptyDict
    /\ plan = NoPlan
    /\ new_db = EmptyDict
    /\ idx = 1
    /\ io = <<>>
    /\ sessions = [o \in Owners |-> NoSession]
    /\ outcome = "none"
    /\ faults = 0
    /\ log = <<>>
    /\ prev = [outcome |-> "none", plan |-> NoPlan, new_db |-> EmptyDict, blob |-> blob,
               remote |-> remote, log |-> <<>>]
    /\ host = Idle /\ push = Idle /\ cmp = Idle
    /\ pull = Idle /\ wire = Idle /\ codec = Idle /\ parse = Idle /\ outgoing = Idle

Next ==
    \/ Plan
    \/ Open
    \/ PutDbBegin
    \/ PutDbEnd
    \/ RmDir
    \/ RmFile
    \/ AddBegin
    \/ AddEnd
    \/ LoopEnd
    \/ FailStatus
    \/ Interrupt
    \/ TransportError
    \/ Drop
    \/ Exit
    \/ Rerun

Spec == Init /\ [][Next]_vars

\* ------------------------------------------------------------- host commands

\* rsync() is not running: the variables of a call at rest
NoRsync ==
    /\ args = [remote_folder |-> REMOVE_PREFIX, fast |-> FALSE, trial_run |-> TRUE]
    /\ local = {} /\ remote = {} /\ blob = NoBlob
    /\ device = [mtime_works |-> FALSE, cache |-> <<>>]
    /\ run = 1 /\ pc = "idle" /\ db = EmptyDict /\ plan = NoPlan /\ new_db = EmptyDict
    /\ idx = 1 /\ io = <<>> /\ sessions = [o \in Owners |-> NoSession]
    /\ outcome = "none" /\ faults = 0 /\ log = <<>>
    /\ prev = [outcome |-> "none", plan |-> NoPlan, new_db |-> EmptyDict, blob |-> NoBlob,
               remote |-> {}, log |-> <<>>]

rsync_vars == <<local, remote, blob, args, device, run, pc, db, plan, new_db, idx, io,
                sessions, outcome, faults, log, prev>>

OKAY == <<"O", "K", "A", "Y">>
FAIL == <<"F", "A", "I", "L">>

HexDigits == <<"0", "1", "2", "3", "4", "5", "6", "7", "8", "9",
               "a", "b", "c", "d", "e", "f">>

\* '%04x' % n
hex4(n) == <<HexDigits[((n \div 4096) % 16) + 1], HexDigits[((n \div 256) % 16) + 1],
             HexDigits[((n \div 16) % 16) + 1], HexDigits[(n % 16) + 1]>>

\* int(s, 16): the number a string of hex digits of either case writes; None
\* stands for the ValueError of any other string
RECURSIVE int16(_)
int16(s) ==
    IF s = <<>> THEN None
    ELSE LET c == lower_char(s[Len(s)])
             known == \E i \in DOMAIN HexDigits : HexDigits[i] = c
             v == (CHOOSE i \in DOMAIN HexDigits : HexDigits[i] = c) - 1
             rest == IF Len(s) = 1 THEN 0 ELSE int16(SubSeq(s, 1, Len(s) - 1))
         IN  IF ~known \/ rest = None THEN None ELSE 16 * rest + v

\* "Bad response: %r" % (stat,)
bad_response(stat) ==
    <<"B", "a", "d", " ", "r", "e", "s", "p", "o", "n", "s", "e", ":", " ", "'">>
        \o stat \o <<"'">>

\* the message of adb_connect's AdbError
cannot_contact == <<"C", "a", "n", "n", "o", "t", " ", "c", "o", "n", "t", "a", "c", "t">>

\* an adb_send_command that closes the socket for no exception
closes_on_nothing(exc) == FALSE

\* adb_send_command's except clause: the exceptions it closes the socket for
closes_on(exc) == exc = "AdbError"

\* the host-level commands, by the function that sends them
withret == {"host:version", "host:devices-l", "host-serial:get-state"}
HostOps == withret \cup {"host:wait-for", "host:kill", "host-serial:wait-for-device"}

\* what the server may have to say: a FAIL message, a reply, a second status
Messages == {<<>>, <<"n">>, <<"u", "n", "k", "n", "o", "w", "n", " ", "h", "s">>}
Payloads == {<<>>, <<"0", "0", "1", "f">>}

\* the bytes the server sends after a command: a status, then for FAIL the
\* message, and for OKAY what the command is answered with
Replies(op) ==
    {[bytes |-> FAIL \o hex4(Len(m)) \o m, msg |-> m] : m \in Messages}
    \cup {[bytes |-> <<"W", "H", "A", "T">>, msg |-> <<>>]}
    \cup IF op \in withret
         THEN {[bytes |-> OKAY \o hex4(Len(p)) \o p, msg |-> <<>>] : p \in Payloads}
         ELSE IF op = "host:kill" THEN {[bytes |-> OKAY, msg |-> <<>>]}
         ELSE {[bytes |-> OKAY \o OKAY, msg |-> <<>>],
               [bytes |-> OKAY \o FAIL \o hex4(1) \o <<"n">>, msg |-> <<>>]}

\* A command about to be sent.  The server can be reached or not; of its reply
\* a part arrives, and where less than all of it arrives the server has closed
\* the connection (eof) or is silent.
HostCall(op, up, r, cut, eof) ==
    [pc |-> "call", op |-> op, reachable |-> up,
     peer |-> IF up THEN SubSeq(r.bytes, 1, cut) ELSE <<>>,
     eof |-> up /\ eof, msg |-> r.msg, sock |-> "none", want |-> "none", remain |-> 0,
     datas |-> <<>>, tick |-> 0, stat |-> <<>>, cmd |-> "none", raised |-> "none",
     err |-> <<>>, result |-> <<>>]

HostCalls ==
    UNION {UNION {{HostCall(op, up, r, cut, eof) :
                      up \in BOOLEAN, cut \in 0..Len(r.bytes), eof \in BOOLEAN} :
                  r \in Replies(op)} : op \in HostOps}

InitHost ==
    /\ NoRsync
    /\ push = Idle /\ cmp = Idle
    /\ pull = Idle /\ wire = Idle /\ codec = Idle /\ parse = Idle /\ outgoing = Idle
    /\ host \in HostCalls

\* _recvall is entered: datas, remain = [], size
recvall(h, want, size) ==
    [h EXCEPT !.pc = "recv", !.want = want, !.remain = size, !.datas = <<>>, !.tick = 0]

\* the operation ends by raising
host_raise(h, exc, err, sock) ==
    [h EXCEPT !.pc = "raised", !.raised = exc, !.err = err, !.sock = sock]

\* adb_connect and the sendall of adb_send_command
Connect ==
    /\ host.pc = "call"
    /\ host' = IF ~host.reachable THEN host_raise(host, "AdbError", cannot_contact, "none")
               ELSE recvall([host EXCEPT !.sock = "open", !.cmd = "running"], "stat", 4)
    /\ UNCHANGED <<rsync_vars, push, cmp, pull, wire, codec, parse, outgoing>>

\* one turn of _recvall's loop: recv hands over some of the bytes asked for, or
\* '' once the peer has closed; with nothing to hand over it blocks.  datas
\* stands for the join of the chunks, tick for the parity of the empty ones.
Recv ==
    /\ host.pc = "recv" /\ host.remain > 0
    /\ \/ \E k \in 1..host.remain :
            /\ k <= Len(host.peer)
            /\ host' = [host EXCEPT !.datas = @ \o SubSeq(host.peer, 1, k),
                                    !.peer = SubSeq(@, k + 1, Len(@)),
                                    !.remain = @ - k]
       \/ /\ host.peer = <<>> /\ host.eof
          /\ host' = [host EXCEPT !.tick = 1 - @]
    /\ UNCHANGED <<rsync_vars, push, cmp, pull, wire, codec, parse, outgoing>>

\* adb_recv_stat has its four bytes: OKAY lets adb_send_command return, and the
\* caller go on; FAIL reads on; another tag raises, and adb_send_command closes
\* the socket
GotStat ==
    /\ host.pc = "recv" /\ host.remain = 0 /\ host.want = "stat"
    /\ LET h == [host EXCEPT !.stat = host.datas]
       IN  host' =
             IF h.stat = OKAY
             THEN LET ok == [h EXCEPT !.cmd = "returned"]
                  IN  IF h.op \in withret THEN recvall(ok, "size", 4)
                      ELSE IF h.op = "host:kill"
                      THEN [ok EXCEPT !.pc = "returned", !.sock = "closed"]
                      ELSE recvall(ok, "extra", 4)
             ELSE IF h.stat = FAIL THEN recvall(h, "fail_size", 4)
             ELSE host_raise([h EXCEPT !.cmd = "raised"], "AdbError", bad_response(h.stat),
                             IF closes_on("AdbError") THEN "closed" ELSE "open")
    /\ UNCHANGED <<rsync_vars, push, cmp, pull, wire, codec, parse, outgoing>>

\* adb_recv_stat after FAIL: the length, then the message, then AdbError(val),
\* for which adb_send_command closes the socket
GotFail ==
    /\ host.pc = "recv" /\ host.remain = 0 /\ host.want \in {"fail_size", "fail_msg"}
    /\ host' =
         IF host.want = "fail_size"
         THEN IF int16(host.datas) = None
              THEN host_raise([host EXCEPT !.cmd = "raised"], "ValueError", <<>>,
                              IF closes_on("ValueError") THEN "closed" ELSE "open")
              ELSE recvall(host, "fail_msg", int16(host.datas))
         ELSE host_raise([host EXCEPT !.cmd = "raised"], "AdbError", host.datas,
                         IF closes_on("AdbError") THEN "closed" ELSE "open")
    /\ UNCHANGED <<rsync_vars, push, cmp, pull, wire, codec, parse, outgoing>>

\* adb_connect_and_send_withret: the length, then the reply; closing() closes
\* the socket on the way out of the with-block, however it ends
GotReply ==
    /\ host.pc = "recv" /\ host.remain = 0 /\ host.want \in {"size", "reply"}
    /\ host' =
         IF host.want = "size"
         THEN IF int16(host.datas) = None
              THEN host_raise(host, "ValueError", <<>>, "closed")
              ELSE recvall(host, "reply", int16(host.datas))
         ELSE [host EXCEPT !.pc = "returned", !.result = host.datas, !.sock = "closed"]
    /\ UNCHANGED <<rsync_vars, push, cmp, pull, wire, codec, parse, outgoing>>

\* the second status of the wait-for commands.  adb_wait_for_device drops it
\* and leaves its with-block, which closes the socket.  wait_until_running
\* asserts it is OKAY and returns; it has no close: when it raises the socket is
\* held by the traceback's frame, when it returns the socket is left to the
\* collector, which has closed it or has not.
GotExtra ==
    /\ host.pc = "recv" /\ host.remain = 0 /\ host.want = "extra"
    /\ \/ /\ host.op = "host:wait-for"
          /\ host' = [host EXCEPT !.pc = "returned", !.sock = "closed"]
       \/ /\ host.op = "host-serial:wait-for-device"
          /\ host.datas # OKAY
          /\ host' = host_raise(host, "AssertionError", <<>>, "open")
       \/ /\ host.op = "host-serial:wait-for-device"
          /\ host.datas = OKAY
          /\ \E left \in {"open", "closed"} :
                host' = [host EXCEPT !.pc = "returned", !.sock = left]
    /\ UNCHANGED <<rsync_vars, push, cmp, pull, wire, codec, parse, outgoing>>

NextHost == Connect \/ Recv \/ GotStat \/ GotFail \/ GotReply \/ GotExtra

SpecHost == InitHost /\ [][NextHost]_vars

\* the loop of _recvall goes on as long as it can
SpecHostFair == SpecHost /\ WF_vars(NextHost)

\* ------------------------------------------------------------------ sync_push

SYNC_DATA_MAX == 65536

\* stat.S_IFMT, stat.S_ISDIR and stat.S_ISREG of a numeric st_mode
stat_S_IFMT(mode) == (mode \div 4096) * 4096
stat_S_ISDIR(mode) == stat_S_IFMT(mode) = 16384
stat_S_ISREG(mode) == stat_S_IFMT(mode) = 32768

\* the mode and the mtime sync_push gives a file-like source: 0644, 0
stream_mode == 420
stream_mtime == 0

\* the modes of a local source (0100644, 0100755, a directory 040755) and the
\* modes STAT answers for the remote path (0 if there is none, 0100660,
\* a directory 040771)
LocalModes == {33188, 33261, 16877}
RemoteModes == {0, 33200, 16889}

\* the lengths of the sources
Sizes == {0, 1, SYNC_DATA_MAX - 1, SYNC_DATA_MAX, SYNC_DATA_MAX + 1, 2 * SYNC_DATA_MAX}

\* how many reads of a file-like source may come back short of what is there
MaxShort == 1

\* a loop that takes a chunk short of SYNC_DATA_MAX for the end of the source
at_eof_short(n) == n < SYNC_DATA_MAX

\* sync_push's `if data == '': break`, by the length of data
at_eof(n) == n = 0

\* what is written to and read from the socket of the sync session
Wr(id, x, y) == [io |-> "send", id |-> id, x |-> x, y |-> y]
Rd(what) == [io |-> "recv", id |-> what, x |-> 0, y |-> 0]

\* A call sync_push(sock, local_file, remote_file).  The source is a path, with
\* its st_mode and st_mtime, or a file-like object; the device will answer STAT
\* with r_mode and the push with status.
PushCalls ==
    {[pc |-> "call", src |-> "path", st_mode |-> m, st_mtime |-> 10, size |-> n,
      r_mode |-> r, status |-> st, mode |-> 0, mtime |-> 0, off |-> 0, data |-> 0,
      shorts |-> 0, wire |-> <<>>, raised |-> "none"] :
        m \in LocalModes, n \in Sizes, r \in RemoteModes, st \in {"OKAY", "FAIL"}}
    \cup
    {[pc |-> "call", src |-> "stream", st_mode |-> 0, st_mtime |-> 0, size |-> n,
      r_mode |-> r, status |-> st, mode |-> 0, mtime |-> 0, off |-> 0, data |-> 0,
      shorts |-> 0, wire |-> <<>>, raised |-> "none"] :
        n \in Sizes, r \in RemoteModes, st \in {"OKAY", "FAIL"}}

InitPush ==
    /\ NoRsync
    /\ host = Idle /\ cmp = Idle
    /\ pull = Idle /\ wire = Idle /\ codec = Idle /\ parse = Idle /\ outgoing = Idle
    /\ push \in PushCalls

\* mode = self.sync_stat(sock, remote_file)[0]; an existing directory raises
PushStat ==
    /\ push.pc = "call"
    /\ LET p == [push EXCEPT !.mode = push.r_mode,
                             !.wire = @ \o <<Wr("STAT", 0, 0), Rd("stat")>>]
       IN  push' = IF p.mode # 0 /\ stat_S_ISDIR(p.mode)
                   THEN [p EXCEPT !.pc = "raised", !.raised = "AdbError"]
                   ELSE [p EXCEPT !.pc = "send"]
    /\ UNCHANGED <<rsync_vars, host, cmp, pull, wire, codec, parse, outgoing>>

\* the SEND request.  A file-like source goes with mode 0644 and mtime 0.  A
\* path is first looked at with os.stat and must be a regular file; its SEND
\* goes with what `mode` holds, and its DONE will carry st.st_mtime.
PushSend ==
    /\ push.pc = "send"
    /\ push' =
         IF push.src = "stream"
         THEN [push EXCEPT !.mode = stream_mode, !.mtime = stream_mtime, !.pc = "read",
                           !.wire = Append(@, Wr("SEND", stream_mode, 0))]
         ELSE IF ~stat_S_ISREG(push.st_mode)
         THEN [push EXCEPT !.pc = "raised", !.raised = "AdbError"]
         ELSE [push EXCEPT !.mtime = push.st_mtime, !.pc = "read",
                           !.wire = Append(@, Wr("SEND", push.mode, 0))]
    /\ UNCHANGED <<rsync_vars, host, cmp, pull, wire, codec, parse, outgoing>>

\* data = inf.read(SYNC_DATA_MAX): what is left of the source, up to
\* SYNC_DATA_MAX; a file-like source may hand over less than that
PushRead ==
    /\ push.pc = "read"
    /\ LET left == push.size - push.off
           full == IF left < SYNC_DATA_MAX THEN left ELSE SYNC_DATA_MAX
       IN  \/ push' = [push EXCEPT !.data = full, !.pc = "loop"]
           \/ /\ push.src = "stream" /\ full > 1 /\ push.shorts < MaxShort
              /\ push' = [push EXCEPT !.data = 1, !.shorts = @ + 1, !.pc = "loop"]
    /\ UNCHANGED <<rsync_vars, host, cmp, pull, wire, codec, parse, outgoing>>

\* the rest of the loop's body: break at the end of the source, else
\* sync_send_data_data writes the chunk as a DATA frame
PushData ==
    /\ push.pc = "loop"
    /\ push' = IF at_eof(push.data) THEN [push EXCEPT !.pc = "done"]
               ELSE [push EXCEPT !.wire = Append(@, Wr("DATA", push.off, push.data)),
                                 !.off = @ + push.data, !.pc = "read"]
    /\ UNCHANGED <<rsync_vars, host, cmp, pull, wire, codec, parse, outgoing>>

\* sync_send_data_done(sock, mtime)
PushDone ==
    /\ push.pc = "done"
    /\ push' = [push EXCEPT !.wire = Append(@, Wr("DONE", push.mtime, 0)), !.pc = "status"]
    /\ UNCHANGED <<rsync_vars, host, cmp, pull, wire, codec, parse, outgoing>>

\* sync_recv_status(sock)
PushStatus ==
    /\ push.pc = "status"
    /\ push' = [push EXCEPT !.wire = Append(@, Rd("status")),
                            !.raised = sync_recv_status(push.status),
                            !.pc = IF sync_recv_status(push.status) = "none"
                                   THEN "returned" ELSE "raised"]
    /\ UNCHANGED <<rsync_vars, host, cmp, pull, wire, codec, parse, outgoing>>

NextPush == PushStat \/ PushSend \/ PushRead \/ PushData \/ PushDone \/ PushStatus

SpecPush == InitPush /\ [][NextPush]_vars

\* ------------------------------------------------- one pass of the planning loop

\* the name and the db key of the file the pass compares
cmp_name == <<"a">>
cmp_key == <<"a">>

\* the mtimes and sizes the two sides and the db may hold
Mtimes == {0, 4, 5, 10, 15, 16}
FileSizes == {1, 2}

\* One directory with the file on both sides: its local and its remote dirent,
\* the db (empty, or with the file's entry), and what does_mtime_work() said
CmpCalls ==
    {[pc |-> "call", l |-> dirent(S_IFREG, ls, 10, cmp_name),
      r |-> dirent(S_IFREG, rs, rm, <<"A">>), db |-> d, can_use_mtime |-> can,
      to_add |-> <<>>, new_db |-> EmptyDict] :
        ls \in FileSizes, rs \in FileSizes, rm \in Mtimes, can \in BOOLEAN,
        d \in {EmptyDict} \cup {put(EmptyDict, cmp_key, <<dm, 1>>) : dm \in Mtimes}}

InitCmp ==
    /\ NoRsync
    /\ host = Idle /\ push = Idle
    /\ pull = Idle /\ wire = Idle /\ codec = Idle /\ parse = Idle /\ outgoing = Idle
    /\ cmp \in CmpCalls

\* lines 252-305 for the directory: the pass of the loop over the root pair
Compare ==
    /\ cmp.pc = "call"
    /\ LET cx == [db |-> cmp.db, can_use_mtime |-> cmp.can_use_mtime,
                  remote_folder |-> REMOVE_PREFIX]
           acc0 == [to_add |-> <<>>, to_remove |-> <<>>, to_remove_dir |-> <<>>,
                    new_db |-> EmptyDict, first |-> TRUE, raised |-> "none",
                    db_mtimes |-> [k \in DOMAIN cmp.db |-> cmp.db[k][1]]]
           st == classify(cx, local_folder, <<>>, <<cmp.l>>, REMOVE_PREFIX, <<>>, <<cmp.r>>, acc0)
       IN  cmp' = [cmp EXCEPT !.pc = "done", !.to_add = st.acc.to_add,
                              !.new_db = st.acc.new_db]
    /\ UNCHANGED <<rsync_vars, host, push, pull, wire, codec, parse, outgoing>>

NextCmp == Compare

SpecCmp == InitCmp /\ [][NextCmp]_vars

\* ------------------------------------------------------- the planning alone

\* Trees for the planning.  The local folder may hold files 'a' and 'A', a
\* directory 'd' (with a file, and a directory 'g' below it), a directory 'f'
\* and an entry that cannot be stat'ed; the device may hold, under names of
\* another case, a file or a directory for 'a', the directories for 'd' and
\* 'f' (or a file 'f'), and a directory 'e' the local folder has not.
PlanTrees(root) ==
    LET L(path) == IF path = <<>> THEN local_folder ELSE fmt_join(local_folder, path)
        R(path) == IF path = <<>> THEN root ELSE fmt_join(root, path)
        l_a == {Entry(L(<<>>), <<"a">>, S_IFREG, 1, 10)}
        l_A == {Entry(L(<<>>), <<"A">>, S_IFREG, 2, 10)}
        l_d == {Entry(L(<<>>), <<"d">>, S_IFDIR, 0, 10),
                Entry(L(<<"d">>), <<"c">>, S_IFREG, 1, 10)}
        l_g == {Entry(L(<<"d">>), <<"g">>, S_IFDIR, 0, 10),
                Entry(L(<<"d", "/", "g">>), <<"h">>, S_IFREG, 1, 10)}
        l_f == {Entry(L(<<>>), <<"f">>, S_IFDIR, 0, 10),
                Entry(L(<<"f">>), <<"k">>, S_IFREG, 1, 10)}
        l_u == {Entry(L(<<>>), <<"u">>, S_NOSTAT, 0, 0)}
        r_A == {Entry(R(<<>>), <<"A">>, S_IFREG, 1, 10)}
        r_a == {Entry(R(<<>>), <<"a">>, S_IFDIR, 0, 10)}
        r_D == {Entry(R(<<>>), <<"D">>, S_IFDIR, 0, 10),
                Entry(R(<<"d">>), <<"c">>, S_IFREG, 1, 10)}
        r_G == {Entry(R(<<"d">>), <<"G">>, S_IFDIR, 0, 10),
                Entry(R(<<"d", "/", "g">>), <<"h">>, S_IFREG, 1, 10)}
        r_F == {Entry(R(<<>>), <<"F">>, S_IFDIR, 0, 10),
                Entry(R(<<"f">>), <<"k">>, S_IFREG, 1, 10)}
        r_f == {Entry(R(<<>>), <<"f">>, S_IFREG, 1, 10)}
        r_e == {Entry(R(<<>>), <<"e">>, S_IFDIR, 0, 10),
                Entry(R(<<"e">>), <<"x">>, S_IFREG, 1, 10)}
    IN  {[local |-> la \cup ld \cup lf \cup lu, remote |-> ra \cup rd \cup rf \cup re] :
            la \in {{}, l_a, l_a \cup l_A}, ld \in {{}, l_d, l_d \cup l_g},
            lf \in {{}, l_f}, lu \in {{}, l_u},
            ra \in {{}, r_A, r_a}, rd \in {{}, r_D, r_D \cup r_G},
            rf \in {{}, r_F, r_f}, re \in {{}, r_e}}

\* a call of rsync() on such trees; the blob may be one that does not unpickle
InitPlan ==
    /\ args \in [remote_folder : {REMOVE_PREFIX}, fast : BOOLEAN, trial_run : BOOLEAN]
    /\ \E t \in PlanTrees(args.remote_folder) : local = t.local /\ remote = t.remote
    /\ blob \in {NoBlob, CutBlob, dumps(FullDb(remote, args.remote_folder, 10))}
    /\ device = [mtime_works |-> FALSE, cache |-> <<>>]
    /\ run = 1 /\ pc = "plan" /\ db = EmptyDict /\ plan = NoPlan /\ new_db = EmptyDict
    /\ idx = 1 /\ io = <<>> /\ sessions = [o \in Owners |-> NoSession]
    /\ outcome = "none" /\ faults = 0 /\ log = <<>>
    /\ prev = [outcome |-> "none", plan |-> NoPlan, new_db |-> EmptyDict, blob |-> blob,
               remote |-> remote, log |-> <<>>]
    /\ host = Idle /\ push = Idle /\ cmp = Idle
    /\ pull = Idle /\ wire = Idle /\ codec = Idle /\ parse = Idle /\ outgoing = Idle

NextPlan == Plan

SpecPlan == InitPlan /\ [][NextPlan]_vars

\* ------------------------------------------------- rsync() on a host's tree

\* The trees of a host whose file system tells 'a' from 'A' and has files the
\* user may not read.  The local folder has a file 'a', and may have a file
\* 'A' of another size beside it, a file 'u' that can be stat'ed and not opened,
\* and a directory 'd' with a file 'c'; the device has or has not a file 'A',
\* the directory 'D' with its file, and a file 'b' the local folder has not.
SyncTrees(root) ==
    LET l_a == {Entry(local_folder, <<"a">>, S_IFREG, 1, 10)}
        l_A == {Entry(local_folder, <<"A">>, S_IFREG, 2, 10)}
        l_u == {Entry(local_folder, <<"u">>, S_IFREG_0000, 1, 10)}
        l_d == {Entry(local_folder, <<"d">>, S_IFDIR, 0, 10),
                Entry(fmt_join(local_folder, <<"d">>), <<"c">>, S_IFREG, 1, 10)}
        r_A == {Entry(root, <<"A">>, S_IFREG, 1, 10)}
        r_D == {Entry(root, <<"D">>, S_IFDIR, 0, 10),
                Entry(fmt_join(root, <<"d">>), <<"c">>, S_IFREG, 1, 10)}
        r_b == {Entry(root, <<"b">>, S_IFREG, 1, 10)}
    IN  {[local |-> l_a \cup la \cup lu \cup ld, remote |-> ra \cup rd \cup rb] :
            la \in {{}, l_A}, lu \in {{}, l_u}, ld \in {{}, l_d},
            ra \in {{}, r_A}, rd \in {{}, r_D}, rb \in {{}, r_b}}

\* The calls start from no db or from the db of an earlier sync, which holds
\* the mtimes the host's files had then, three seconds before those of now.
InitSync ==
    /\ args \in [remote_folder : {REMOVE_PREFIX}, fast : BOOLEAN, trial_run : {FALSE}]
    /\ \E t \in SyncTrees(args.remote_folder) : local = t.local /\ remote = t.remote
    /\ blob \in {NoBlob, dumps(FullDb(remote, args.remote_folder, 7))}
    /\ device \in [mtime_works : {FALSE}, cache : {<<>>}]
    /\ run = 1
    /\ pc = "plan"
    /\ db = EmptyDict
    /\ plan = NoPlan
    /\ new_db = EmptyDict
    /\ idx = 1
    /\ io = <<>>
    /\ sessions = [o \in Owners |-> NoSession]
    /\ outcome = "none"
    /\ faults = 0
    /\ log = <<>>
    /\ prev = [outcome |-> "none", plan |-> NoPlan, new_db |-> EmptyDict, blob |-> blob,
               remote |-> remote, log |-> <<>>]
    /\ host = Idle /\ push = Idle /\ cmp = Idle
    /\ pull = Idle /\ wire = Idle /\ codec = Idle /\ parse = Idle /\ outgoing = Idle

SpecSync == InitSync /\ [][Next]_vars

\* ------------------------------------------------------------------ sync_pull

\* what a path of the host holds: nothing, a directory, or a file with its data
NoFile == [kind |-> "none", data |-> <<>>]
Dir == [kind |-> "dir", data |-> <<>>]
File(data) == [kind |-> "file", data |-> data]

\* the attributes of the result of os.stat
stat_result == {"st_mode", "st_ino", "st_dev", "st_nlink", "st_uid", "st_gid",
                "st_size", "st_atime", "st_mtime", "st_ctime"}

\* the attribute of st that line 346 hands to stat.S_ISDIR
st_attr == "mode"

\* reading an attribute of an object: its value, or AttributeError
getattr(attrs, name, value) == IF name \in attrs THEN value ELSE "AttributeError"

\* the frames the device answers RECV with: up to two DATA frames, then DONE,
\* or a frame of another id, or a connection that breaks
Streams ==
    {d \o <<end>> : d \in {<<>>, <<"DATA">>, <<"DATA", "DATA">>},
                    end \in {"DONE", "FAIL", "socket.error"}}

\* A call sync_pull(sock, remote_file, local_file) with a path for local_file.
\* STAT will answer mode and RECV the frames of reply; local_file holds what
\* earlier runs left (prior keeps it), there is no local_file + '.part'; the
\* directory of local_file may be written to or not.
PullCalls ==
    {[pc |-> "call", mode |-> m, local_file |-> t, tmp_file |-> part, stream |-> st,
      writable |-> w, prior |-> t, reply |-> st, raised |-> "none"] :
        m \in RemoteModes, t \in {NoFile, Dir, File(<<0>>)},
        part \in {NoFile}, st \in Streams, w \in BOOLEAN}

\* the data of a reply: the payloads of its DATA frames, which are numbered
data_of(reply) == [i \in 1..Cardinality({j \in DOMAIN reply : reply[j] = "DATA"}) |-> i]

InitPull ==
    /\ NoRsync
    /\ host = Idle /\ push = Idle /\ cmp = Idle
    /\ wire = Idle /\ codec = Idle /\ parse = Idle /\ outgoing = Idle
    /\ pull \in PullCalls

\* the finally clause: os.unlink(tmp_file), which needs the directory writable
\* and whose OSError is passed over; then the exception goes on
pull_finally(p, exc) ==
    [p EXCEPT !.tmp_file = IF p.writable THEN NoFile ELSE @,
              !.pc = IF exc = "none" THEN "returned" ELSE "raised",
              !.raised = exc]

\* lines 325-329: the remote path must be there and be a regular file
PullStat ==
    /\ pull.pc = "call"
    /\ pull' = IF pull.mode = 0 \/ ~stat_S_ISREG(pull.mode)
               THEN [pull EXCEPT !.pc = "raised", !.raised = "AdbError"]
               ELSE [pull EXCEPT !.pc = "check"]
    /\ UNCHANGED <<rsync_vars, host, push, cmp, wire, codec, parse, outgoing>>

\* lines 341-347: os.stat(local_file); if there is nothing, go on; else look
\* at the mode of what is there, and raise if it is a directory
PullCheck ==
    /\ pull.pc = "check"
    /\ pull' =
         IF pull.local_file.kind = "none" THEN [pull EXCEPT !.pc = "open"]
         ELSE LET kind == getattr(stat_result, st_attr, pull.local_file.kind)
              IN  IF kind = "AttributeError"
                  THEN [pull EXCEPT !.pc = "raised", !.raised = "AttributeError"]
                  ELSE IF kind = "dir"
                  THEN [pull EXCEPT !.pc = "raised", !.raised = "AdbError"]
                  ELSE [pull EXCEPT !.pc = "open"]
    /\ UNCHANGED <<rsync_vars, host, push, cmp, wire, codec, parse, outgoing>>

\* lines 349-355: makedirs, then file(tmp_file, 'wb'), which empties what is
\* there or raises IOError; RECV is sent
PullOpen ==
    /\ pull.pc = "open"
    /\ pull' = IF ~pull.writable THEN pull_finally(pull, "IOError")
               ELSE [pull EXCEPT !.tmp_file = File(<<>>), !.pc = "recv"]
    /\ UNCHANGED <<rsync_vars, host, push, cmp, wire, codec, parse, outgoing>>

\* lines 356-359: one frame of the reply.  DATA is written to tmp_file, DONE
\* ends the loop, another id raises ProtocolError, a broken connection
\* socket.error
PullRecv ==
    /\ pull.pc = "recv"
    /\ LET id == Head(pull.stream)
           p == [pull EXCEPT !.stream = Tail(@)]
       IN  pull' =
             CASE id = "DATA" ->
                    [p EXCEPT !.tmp_file = File(Append(@.data, Len(@.data) + 1))]
               [] id = "DONE" -> [p EXCEPT !.pc = "replace"]
               [] id = "socket.error" -> pull_finally(p, "socket.error")
               [] OTHER -> pull_finally(p, "ProtocolError")
    /\ UNCHANGED <<rsync_vars, host, push, cmp, wire, codec, parse, outgoing>>

\* lines 360-366: unlink local_file, rename tmp_file onto it, set its mtime;
\* the finally clause finds no tmp_file to unlink
PullReplace ==
    /\ pull.pc = "replace"
    /\ pull' = pull_finally([pull EXCEPT !.local_file = pull.tmp_file,
                                         !.tmp_file = NoFile], "none")
    /\ UNCHANGED <<rsync_vars, host, push, cmp, wire, codec, parse, outgoing>>

NextPull == PullStat \/ PullCheck \/ PullOpen \/ PullRecv \/ PullReplace

SpecPull == InitPull /\ [][NextPull]_vars

\* ------------------------------------------------- a session on the socket

\* a loop that takes the first frame of the reply for its last
list_ends_early(id) == TRUE

\* sync_walk's `if id == 'DONE': break`
list_ends(id) == id = "DONE"

\* the frames the device answers a LIST of the path with
ListReply(rem, path) ==
    Map(DeviceList(rem, NoBlob, REMOVE_PREFIX, path), LAMBDA d : [id |-> "DENT", d |-> d])
    \o <<[id |-> "DONE", d |-> dirent(0, 0, 0, <<>>)]>>

\* the most files the with-block of rsync() has to add
MaxAdds == 2

\* A sync session and the one user it has: device.walk(remote_folder), whose
\* generator the planning loop draws from, or the with-block of rsync() with
\* its n files to add.  frames is what has been written to and read from the
\* socket.
WireCalls ==
    {[kind |-> "walk", pc |-> "next", rem |-> t.remote, todo |-> <<REMOVE_PREFIX>>,
      cur |-> <<>>, reply |-> <<>>, dirs |-> <<>>, phase |-> "walk", n |-> 0, idx |-> 1,
      what |-> "dir", left |-> 0, frames |-> <<>>, raised |-> "none"] :
        t \in Trees(REMOVE_PREFIX)}
    \cup
    {[kind |-> "exec", pc |-> "next", rem |-> {}, todo |-> <<>>,
      cur |-> <<>>, reply |-> <<>>, dirs |-> <<>>, phase |-> "checkpoint", n |-> n, idx |-> 1,
      what |-> "db", left |-> 0, frames |-> <<>>, raised |-> "none"] :
        n \in 0..MaxAdds}

InitWire ==
    /\ NoRsync
    /\ host = Idle /\ push = Idle /\ cmp = Idle
    /\ pull = Idle /\ codec = Idle /\ parse = Idle /\ outgoing = Idle
    /\ wire \in WireCalls

\* sync_walk, lines 438-439: the generator is asked for its next tuple and
\* sends LIST for the directory it has come to
WalkList ==
    /\ wire.kind = "walk" /\ wire.pc = "next" /\ wire.todo # <<>>
    /\ wire' = [wire EXCEPT !.cur = Head(wire.todo), !.todo = Tail(@),
                            !.reply = ListReply(wire.rem, Head(wire.todo)),
                            !.dirs = <<>>, !.pc = "reading",
                            !.frames = Append(@, Wr("LIST", "dir", 0))]
    /\ UNCHANGED <<rsync_vars, host, push, cmp, pull, codec, parse, outgoing>>

\* lines 440-447: one frame of the reply is read; DONE ends the loop and the
\* tuple is yielded, a directory other than '.' and '..' goes to dirs
WalkDent ==
    /\ wire.kind = "walk" /\ wire.pc = "reading"
    /\ LET f == Head(wire.reply)
           w == [wire EXCEPT !.reply = Tail(@), !.frames = Append(@, Rd(f.id))]
       IN  wire' = IF list_ends(f.id) THEN [w EXCEPT !.pc = "yielded"]
                   ELSE IF S_ISDIR(f.d.mode) /\ f.d.name # <<".">> /\ f.d.name # <<".", ".">>
                   THEN [w EXCEPT !.dirs = Append(@, f.d)]
                   ELSE w
    /\ UNCHANGED <<rsync_vars, host, push, cmp, pull, codec, parse, outgoing>>

\* lines 449-452: the loop that draws from the walk has the tuple, keeps the
\* list of directories or empties it, and asks for the next: the generator
\* goes on with the directories of the list
WalkYield ==
    /\ wire.kind = "walk" /\ wire.pc = "yielded"
    /\ \E keep \in BOOLEAN :
          wire' = [wire EXCEPT
                     !.todo = (IF keep THEN Map(wire.dirs, LAMBDA d : fmt_join(wire.cur, d.name))
                               ELSE <<>>) \o @,
                     !.pc = "next"]
    /\ UNCHANGED <<rsync_vars, host, push, cmp, pull, codec, parse, outgoing>>

\* the walk is exhausted, or the loop that draws from it ends and the
\* generator is closed: the with-statement of device.walk is left
WalkEnd ==
    /\ wire.kind = "walk"
    /\ \/ wire.pc = "next" /\ wire.todo = <<>>
       \/ wire.pc = "yielded"
    /\ wire' = [wire EXCEPT !.pc = "quit"]
    /\ UNCHANGED <<rsync_vars, host, push, cmp, pull, codec, parse, outgoing>>

\* rsync.py 336-365 and adb.py 292: the with-block goes on to its next push,
\* of the db or of a file, and sync_push sends STAT; after the last file the
\* loop of adds gives way to the final checkpoint
ExecStat ==
    /\ wire.kind = "exec" /\ wire.pc = "next"
    /\ LET what == IF wire.phase = "adds" THEN "file" ELSE "db"
       IN  wire' = IF wire.phase = "adds" /\ wire.idx > wire.n
                   THEN [wire EXCEPT !.phase = "final"]
                   ELSE [wire EXCEPT !.what = what, !.pc = "stat",
                                     !.frames = Append(@, Wr("STAT", what, 0))]
    /\ UNCHANGED <<rsync_vars, host, push, cmp, pull, codec, parse, outgoing>>

\* adb.py 292-294: the stat frame is read; an existing directory raises
ExecStatReply ==
    /\ wire.kind = "exec" /\ wire.pc = "stat"
    /\ \E mode \in RemoteModes :
          wire' = IF mode # 0 /\ stat_S_ISDIR(mode) /\ wire.what = "file"
                  THEN [wire EXCEPT !.frames = Append(@, Rd("stat")),
                                    !.raised = "AdbError", !.pc = "quit"]
                  ELSE [wire EXCEPT !.frames = Append(@, Rd("stat")), !.pc = "send"]
    /\ UNCHANGED <<rsync_vars, host, push, cmp, pull, codec, parse, outgoing>>

\* adb.py 299, 314: SEND; the source has no data or one chunk of it
ExecSend ==
    /\ wire.kind = "exec" /\ wire.pc = "send"
    /\ \E chunks \in 0..1 :
          wire' = [wire EXCEPT !.left = chunks, !.pc = "data",
                               !.frames = Append(@, Wr("SEND", wire.what, 0))]
    /\ UNCHANGED <<rsync_vars, host, push, cmp, pull, codec, parse, outgoing>>

\* adb.py 300-304, 315-319: a DATA frame for a chunk, DONE after the last
ExecData ==
    /\ wire.kind = "exec" /\ wire.pc = "data"
    /\ wire' = IF wire.left > 0
               THEN [wire EXCEPT !.left = @ - 1,
                                 !.frames = Append(@, Wr("DATA", wire.what, 0))]
               ELSE [wire EXCEPT !.pc = "status",
                                 !.frames = Append(@, Wr("DONE", wire.what, 0))]
    /\ UNCHANGED <<rsync_vars, host, push, cmp, pull, codec, parse, outgoing>>

\* adb.py 305, 320 and rsync.py 338, 349-365: the status frame is read.  FAIL
\* raises; after OKAY the with-block goes on: from the checkpoint to the adds,
\* from a file to the next or, if the time has come, to an autosave, from the
\* final checkpoint out of the block
ExecStatus ==
    /\ wire.kind = "exec" /\ wire.pc = "status"
    /\ \E id \in {"OKAY", "FAIL"}, due \in BOOLEAN :
          LET w == [wire EXCEPT !.frames = Append(@, Rd("status"))]
          IN  wire' =
                IF sync_recv_status(id) # "none"
                THEN [w EXCEPT !.raised = sync_recv_status(id), !.pc = "quit"]
                ELSE CASE wire.phase = "checkpoint" -> [w EXCEPT !.phase = "adds", !.pc = "next"]
                       [] wire.phase = "adds" ->
                            [w EXCEPT !.idx = @ + 1, !.pc = "next",
                                      !.phase = IF due THEN "autosave" ELSE "adds"]
                       [] wire.phase = "autosave" -> [w EXCEPT !.phase = "adds", !.pc = "next"]
                       [] OTHER -> [w EXCEPT !.pc = "quit"]
    /\ UNCHANGED <<rsync_vars, host, push, cmp, pull, codec, parse, outgoing>>

\* the process is interrupted while the session is in use
WireInterrupt ==
    /\ wire.pc \notin {"quit", "closed"}
    /\ wire' = [wire EXCEPT !.raised = "KeyboardInterrupt", !.pc = "quit"]
    /\ UNCHANGED <<rsync_vars, host, push, cmp, pull, codec, parse, outgoing>>

\* adb.py, sync_transaction: the with-statement is left, QUIT is sent and the
\* socket closed
WireQuit ==
    /\ wire.pc = "quit"
    /\ wire' = [wire EXCEPT !.pc = "closed", !.frames = Append(@, Wr("QUIT", "quit", 0))]
    /\ UNCHANGED <<rsync_vars, host, push, cmp, pull, codec, parse, outgoing>>

NextWire ==
    \/ WalkList \/ WalkDent \/ WalkYield \/ WalkEnd
    \/ ExecStat \/ ExecStatReply \/ ExecSend \/ ExecData \/ ExecStatus
    \/ WireInterrupt \/ WireQuit

SpecWire == InitWire /\ [][NextWire]_vars

\* ---------------------------------------------------------- data frames

\* the bytes of the letters of the frame ids, and back
ord(c) == CASE c = "A" -> 65 [] c = "D" -> 68 [] c = "E" -> 69 [] c = "I" -> 73
            [] c = "N" -> 78 [] c = "O" -> 79 [] c = "Q" -> 81 [] c = "S" -> 83
            [] c = "T" -> 84 [] c = "U" -> 85 [] OTHER -> 63
chr(b) == CASE b = 65 -> "A" [] b = 68 -> "D" [] b = 69 -> "E" [] b = 73 -> "I"
            [] b = 78 -> "N" [] b = 79 -> "O" [] b = 81 -> "Q" [] b = 83 -> "S"
            [] b = 84 -> "T" [] b = 85 -> "U" [] OTHER -> "?"

DATA == <<"D", "A", "T", "A">>
DONE == <<"D", "O", "N", "E">>

\* struct's 'I' in '<4sI': an unsigned of 32 bits, low byte first
pack_I(n) == <<n % 256, (n \div 256) % 256, (n \div 65536) % 256, (n \div 16777216) % 256>>
unpack_I(b) == b[1] + 256 * b[2] + 65536 * b[3] + 16777216 * b[4]

\* struct.pack('<4sI', id, n)
pack_4sI(id, n) == Map(id, ord) \o pack_I(n)

\* sync_send_data_data and sync_send_data_done: what they send
sync_send_data_data(data) == pack_4sI(DATA, Len(data)) \o data
sync_send_data_done(mtime) == pack_4sI(DONE, mtime)

\* sync_recv_data on a stream that holds these bytes and gets no more: the id
\* and the length are unpacked from the first eight bytes, and if the length
\* is not 0 that many bytes are read for the data; _recvall waits for bytes
\* the stream has not
sync_recv_data(bytes) ==
    LET id == Map(SubSeq(bytes, 1, 4), chr)
        datalen == unpack_I(SubSeq(bytes, 5, 8))
    IN  IF datalen = 0
        THEN [id |-> id, data |-> <<>>, used |-> 8, raised |-> "none"]
        ELSE IF Len(bytes) - 8 < datalen
        THEN [id |-> id, data |-> SubSeq(bytes, 9, Len(bytes)), used |-> Len(bytes),
              raised |-> "blocked"]
        ELSE [id |-> id, data |-> SubSeq(bytes, 9, 8 + datalen), used |-> 8 + datalen,
              raised |-> IF id \in {DATA, DONE} THEN "none" ELSE "ProtocolError"]

\* the longest payload of a DATA frame
MaxPayload == 2

\* the payloads, the mtimes a DONE frame may carry, and what may follow a
\* frame on the stream: nothing, or the frames that end a transfer
Payloads8 == UNION {[1..n -> {0, 255}] : n \in 0..MaxPayload}
DoneMtimes == {0, 1, 2, 256, 1700000000, 2147483647}
Following == {<<>>, sync_send_data_done(0), sync_send_data_data(<<7>>),
              sync_send_data_data(<<7>>) \o sync_send_data_done(0)}

\* A frame to encode, and the stream it will be decoded from
Frames ==
    {[pc |-> "frame", id |-> DATA, data |-> d, mtime |-> 0, rest |-> r, bytes |-> <<>>,
      out |-> <<>>] : d \in Payloads8, r \in Following}
    \cup
    {[pc |-> "frame", id |-> DONE, data |-> <<>>, mtime |-> m, rest |-> r, bytes |-> <<>>,
      out |-> <<>>] : m \in DoneMtimes, r \in Following}

InitCodec ==
    /\ NoRsync
    /\ host = Idle /\ push = Idle /\ cmp = Idle
    /\ pull = Idle /\ wire = Idle /\ parse = Idle /\ outgoing = Idle
    /\ codec \in Frames

\* the frame is sent
Encode ==
    /\ codec.pc = "frame"
    /\ codec' = [codec EXCEPT !.pc = "sent",
                              !.bytes = IF codec.id = DATA
                                        THEN sync_send_data_data(codec.data)
                                        ELSE sync_send_data_done(codec.mtime)]
    /\ UNCHANGED <<rsync_vars, host, push, cmp, pull, wire, parse, outgoing>>

\* the frame is received from a stream that holds it and what follows it
Decode ==
    /\ codec.pc = "sent"
    /\ codec' = [codec EXCEPT !.pc = "received",
                              !.out = <<sync_recv_data(codec.bytes \o codec.rest)>>]
    /\ UNCHANGED <<rsync_vars, host, push, cmp, pull, wire, parse, outgoing>>

NextCodec == Encode \/ Decode

SpecCodec == InitCodec /\ [][NextCodec]_vars

\* ------------------------------------------------------ adb_get_devices

\* the characters str.split(None, ...) takes for whitespace, of those a reply
\* has within a line
Whitespace == {" ", "\t"}

\* s.lstrip()
RECURSIVE lstrip(_)
lstrip(s) == IF s # <<>> /\ Head(s) \in Whitespace THEN lstrip(Tail(s)) ELSE s

\* the length of the first word of a string that does not start with whitespace
RECURSIVE word_len(_)
word_len(s) == IF s = <<>> \/ Head(s) \in Whitespace THEN 0 ELSE 1 + word_len(Tail(s))

\* s.split(None, maxsplit): the words between runs of whitespace; after
\* maxsplit words the rest of the string, without its leading whitespace, is
\* the last item
RECURSIVE split(_, _)
split(s, maxsplit) ==
    LET t == lstrip(s)
        n == word_len(t)
    IN  IF t = <<>> THEN <<>>
        ELSE IF maxsplit = 0 THEN <<t>>
        ELSE <<SubSeq(t, 1, n)>> \o split(SubSeq(t, n + 1, Len(t)), maxsplit - 1)

\* reply.split('\n')
RECURSIVE split_lines(_)
split_lines(s) ==
    LET at == {i \in DOMAIN s : s[i] = "\n"}
    IN  IF at = {} THEN <<s>>
        ELSE LET i == CHOOSE i \in at : \A j \in at : i <= j
             IN  <<SubSeq(s, 1, i - 1)>> \o split_lines(SubSeq(s, i + 1, Len(s)))

\* `try: x = l[i] except IndexError: x = ""`, with Python's index from 0
item_or_empty(l, i) == IF i + 1 \in DOMAIN l THEN l[i + 1] ELSE <<>>

\* lines 133-137: the maxsplit of the split, and the indices devpath and notes
\* are read at
devices_maxsplit == 3
devpath_index == 2
notes_index == 4

\* lines 131-139: the AdbDevice of a line of the reply
device_of(line) ==
    LET device_data == split(line, devices_maxsplit)
    IN  [serial |-> device_data[1], state |-> device_data[2],
         devpath |-> item_or_empty(device_data, devpath_index),
         notes |-> item_or_empty(device_data, notes_index)]

\* adb_get_devices, from the reply on: a device for each line that is not empty
adb_get_devices(reply) ==
    Map(SelectSeq(split_lines(reply), LAMBDA line : line # <<>>), device_of)

\* lines of a reply to host:devices-l: a serial and a state, then nothing, a
\* devpath, or a devpath and notes of one or two words
DeviceLines ==
    {<<"s", "\t", "d">>,
     <<"s", " ", " ", "d", " ", "p">>,
     <<"s", " ", "d", " ", "p", " ", "n">>,
     <<"s", "\t", "d", " ", "p", " ", "n", " ", "m">>,
     <<"t", " ", "o", " ", "p", " ", " ", "n", " ", "m", " ">>,
     <<"t", " ", "o">>}

\* the replies: one line or two, each ended by a newline, or two lines with an
\* empty line between them
DeviceReplies ==
    {a \o <<"\n">> : a \in DeviceLines}
    \cup {a \o <<"\n">> \o b \o <<"\n">> : a, b \in DeviceLines}
    \cup {a \o <<"\n", "\n">> \o b : a, b \in DeviceLines}

InitParse ==
    /\ NoRsync
    /\ host = Idle /\ push = Idle /\ cmp = Idle
    /\ pull = Idle /\ wire = Idle /\ codec = Idle /\ outgoing = Idle
    /\ parse \in {[pc |-> "call", reply |-> r, devices |-> <<>>] : r \in DeviceReplies}

\* adb_get_devices returns its list
GetDevices ==
    /\ parse.pc = "call"
    /\ parse' = [parse EXCEPT !.pc = "returned", !.devices = adb_get_devices(parse.reply)]
    /\ UNCHANGED <<rsync_vars, host, push, cmp, pull, wire, codec, outgoing>>

NextParse == GetDevices

SpecParse == InitParse /\ [][NextParse]_vars

\* ---------------------------------------------- frames written to the socket

STAT == <<"S", "T", "A", "T">>
SEND == <<"S", "E", "N", "D">>
QUIT == <<"Q", "U", "I", "T">>

\* socket.send(buf) on a socket that takes n bytes of buf: the bytes the wire
\* has after the call; send returns n, and the callers drop it
sock_send(sent, buf, n) == sent \o SubSeq(buf, 1, n)

\* what socket.send may take of a buffer: one byte at least, all of it at most
Taken(buf) == IF buf = <<>> THEN {0} ELSE 1..Len(buf)

\* sync_send_req on a socket that takes n bytes of the header and m of the data
send_req(sent, id, data, n, m) ==
    LET head == sock_send(sent, pack_4sI(id, Len(data)), n)
    IN  IF Len(data) # 0 THEN sock_send(head, data, m) ELSE head

\* sync_send_data_data on a socket that takes n bytes of the header and m of
\* the data
send_data_data(sent, data, n, m) ==
    sock_send(sock_send(sent, pack_4sI(DATA, Len(data)), n), data, m)

\* sync_send_data_done on a socket that takes n bytes of the frame
send_data_done(sent, mtime, n) == sock_send(sent, pack_4sI(DONE, mtime), n)

\* a frame the client writes, and its bytes
Req(id, data) == [f |-> "req", id |-> id, data |-> data, mtime |-> 0]
Data(data) == [f |-> "data", id |-> DATA, data |-> data, mtime |-> 0]
Done(mtime) == [f |-> "done", id |-> DONE, data |-> <<>>, mtime |-> mtime]
frame_bytes(c) == IF c.f = "done" THEN pack_4sI(DONE, c.mtime)
                  ELSE pack_4sI(c.id, Len(c.data)) \o c.data

\* '/a' and '/a,33'
SentPath == <<47, 97>>
SentPathMode == <<47, 97, 44, 51, 51>>

\* what a session writes: the STAT of sync_push, its SEND with a chunk of one
\* or two bytes and DONE, the QUIT that ends the session
Writes ==
    {<<Req(STAT, SentPath)>>, <<Req(QUIT, <<>>)>>}
    \cup {<<Req(SEND, SentPathMode), Data(d), Done(1)>> : d \in {<<7>>, <<7, 8>>}}

InitSend ==
    /\ NoRsync
    /\ host = Idle /\ push = Idle /\ cmp = Idle
    /\ pull = Idle /\ wire = Idle /\ codec = Idle /\ parse = Idle
    /\ outgoing \in {[pc |-> "open", calls |-> w, frames |-> <<>>, sent |-> <<>>,
                      short |-> FALSE] : w \in Writes}

\* the call at the head is made: its frame is what the client means to write,
\* the socket has what it took
Written(c, sent, took_all) ==
    /\ outgoing' = [outgoing EXCEPT !.calls = Tail(@),
                                    !.frames = Append(@, frame_bytes(c)),
                                    !.sent = sent,
                                    !.short = @ \/ ~took_all]
    /\ UNCHANGED <<rsync_vars, host, push, cmp, pull, wire, codec, parse>>

\* lines 375-380
SendReq ==
    /\ outgoing.pc = "open" /\ outgoing.calls # <<>>
    /\ LET c == Head(outgoing.calls)
       IN  /\ c.f = "req"
           /\ \E n \in Taken(pack_4sI(c.id, Len(c.data))), m \in Taken(c.data) :
                 Written(c, send_req(outgoing.sent, c.id, c.data, n, m),
                         n = 8 /\ m = Len(c.data))

\* lines 402-405
SendData ==
    /\ outgoing.pc = "open" /\ outgoing.calls # <<>>
    /\ LET c == Head(outgoing.calls)
       IN  /\ c.f = "data"
           /\ \E n \in Taken(pack_4sI(DATA, Len(c.data))), m \in Taken(c.data) :
                 Written(c, send_data_data(outgoing.sent, c.data, n, m),
                         n = 8 /\ m = Len(c.data))

\* lines 406-408
SendDone ==
    /\ outgoing.pc = "open" /\ outgoing.calls # <<>>
    /\ LET c == Head(outgoing.calls)
       IN  /\ c.f = "done"
           /\ \E n \in Taken(pack_4sI(DONE, c.mtime)) :
                 Written(c, send_data_done(outgoing.sent, c.mtime, n), n = 8)

NextSend == SendReq \/ SendData \/ SendDone

SpecSend == InitSend /\ [][NextSend]_vars

\* --------------------------------------------------------------- properties

\* the positions of the log holding a removal command, the SEND of a file, and
\* the OKAY that ends a push of the db
RmAt == {i \in DOMAIN log : IsRm(log[i])}
FileSendAt == {i \in DOMAIN log : IsSend(log[i], "file")}
DbOkayAt == {i \in DOMAIN log : IsOkay(log[i], "db")}

\* the current call has made its plan
Planned == pc # "plan"

\* the current call, not a trial run, has returned
Returned == pc = "done" /\ outcome = "ok" /\ ~args.trial_run

\* the remote path and the db key of an item of to_add
r_full_of(it) == fmt_join(it.r_root, it.l_dirent.name)
key_of(it) == db_key_of(it.r_root, it.l_dirent.name, args.remote_folder)

\* the push of the item has been answered OKAY in the log
Pushed(lg, it) == \E i \in DOMAIN lg : IsOkay(lg[i], "file") /\ lg[i].path = r_full_of(it)

\* the keys of a blob
KeysOf(b) == {x[1] : x \in b.items}

\* C1: in the execute phase every planned removal is dealt with before the
\* first push of a planned file: no 'rm' or 'rm -r' is issued after a file's
\* SEND, and when a file's SEND is issued every path of to_remove has had its
\* 'rm' and every path of to_remove_dir its 'rm -r' (or, outside the removal
\* prefix, the warning that stands for it).
C1_RemovesBeforeAdds ==
    \A j \in FileSendAt :
        /\ \A i \in RmAt : i < j
        /\ \A q \in Range(plan.to_remove) :
              \E i \in 1..(j - 1) : log[i] = Ev("shell", q, "rm")
        /\ \A q \in Range(plan.to_remove_dir) :
              \E i \in 1..(j - 1) : log[i] \in {Ev("shell", q, "rm -r"),
                                                Ev("warning", q, "rmdir")}

\* a file is pushed after a file and a directory were removed
C1_Witness ==
    \E j \in FileSendAt :
        /\ \E i \in 1..(j - 1) : log[i].e = "shell" /\ log[i].x = "rm"
        /\ \E i \in 1..(j - 1) : log[i].e = "shell" /\ log[i].x = "rm -r"

\* C2: in a call that is not a trial run the planned new_db is pushed to
\* <remote_folder>/files.pickle before anything on the device is changed: every
\* 'rm', 'rm -r' and file SEND comes after the OKAY of a push of the db, and
\* when the loop of directory removals starts the blob on the device is the
\* planned new_db.
C2_CheckpointFirst ==
    /\ \A j \in RmAt \cup FileSendAt : \E i \in DbOkayAt : i < j
    /\ (pc = "rmdirs" /\ idx = 1) => blob = dumps(new_db)

\* a removal is issued after the checkpoint of a plan that carried entries
\* forward
C2_Witness ==
    /\ RmAt # {}
    /\ DbOkayAt # {}
    /\ pc \in {"rmdirs", "rmfiles"}
    /\ blob.state = "ok" /\ blob.items # {}

\* the blob's entries name regular files of the tree, with their sizes
DbValid(b, rem, root) ==
    b.state = "ok" /\
    \A x \in b.items :
        \E e \in Lookup(rem, fmt_join(root, x[1])) : S_ISREG(e.mode) /\ e.size = x[3]

\* C3: after a call that returns (not a trial run), every key of the db
\* persisted on the device names a regular file that exists under
\* remote_folder, and the size recorded for the key is that file's size.
C3_DbSubsetOfRemote == Returned => DbValid(blob, remote, args.remote_folder)

\* a call that pushed a file and carried an entry forward has returned
C3_Witness ==
    /\ Returned
    /\ \E it \in Range(plan.to_add) : Pushed(log, it) /\ key_of(it) \in KeysOf(blob)
    /\ \E k \in KeysOf(blob) : \A it \in Range(plan.to_add) : key_of(it) # k

\* the entry new_db gets for the item is in the blob on the device
Persisted(b, it) ==
    b.state = "ok" /\
    <<key_of(it), db_entry(it.l_dirent)[1], db_entry(it.l_dirent)[2]>> \in b.items

\* C4: at every point of the execute phase, the middle of a push included, the
\* db persisted on the device holds the new_db entry of a planned file only if
\* the push of that file has been answered OKAY.
C4_CheckpointOnlyCompleted ==
    \A it \in Range(plan.to_add) : Persisted(blob, it) => Pushed(log, it)

\* a push is in flight, its entry in new_db and not in the persisted db, which
\* holds the entry of a file pushed before it
C4_Witness ==
    /\ io # <<>> /\ io[1].what = "file"
    /\ \E it \in Range(plan.to_add) :
          /\ r_full_of(it) = io[1].path
          /\ key_of(it) \in DOMAIN new_db
          /\ ~Persisted(blob, it)
    /\ \E it \in Range(plan.to_add) : Persisted(blob, it) /\ Pushed(log, it)

\* the call before this one was interrupted in its loop of adds (the autosave
\* of the loop included), and this call has made its plan
RetryAfterInterruptedAdds ==
    /\ run > 1
    /\ Planned
    /\ prev.outcome = "KeyboardInterrupt"
    /\ \E i \in DOMAIN prev.log :
          prev.log[i].e = "interrupt" /\ prev.log[i].x \in {"adds", "autosave"}

\* C5, as the specification states it: after an interruption in the loop of
\* adds, the next call on the unchanged local tree plans no AddFile for a file
\* whose push had been answered OKAY before the interruption.
C5_Original ==
    RetryAfterInterruptedAdds =>
        \A it \in Range(plan.to_add) : ~Pushed(prev.log, it)

\* C5, as the code has it: after an interruption in the loop of adds, the next
\* call plans no AddFile for a file whose push had been answered OKAY and whose
\* entry was in the db persisted on the device when the call was interrupted.
C5_RetrySkipsCheckpointed ==
    RetryAfterInterruptedAdds =>
        \A it \in Range(plan.to_add) :
            ~(Pushed(prev.log, it) /\ key_of(it) \in KeysOf(prev.blob))

\* the retry finds one pushed file in the persisted db and plans the other
\* file again
C5_Witness ==
    /\ RetryAfterInterruptedAdds
    /\ \E i \in DOMAIN prev.log :
          /\ IsOkay(prev.log[i], "file")
          /\ lower(slice_from(prev.log[i].path, Len(args.remote_folder) + 1))
                \in KeysOf(prev.blob)
          /\ \A it \in Range(plan.to_add) : r_full_of(it) # prev.log[i].path
    /\ plan.to_add # <<>>

\* this call and the call before it are not trial runs, and the call before it
\* returned
SecondOfTwo == run > 1 /\ prev.outcome = "ok" /\ ~args.trial_run

\* C6, as the specification states it: the second of two consecutive calls
\* that return, on unchanged trees, plans no work item, and the db persisted
\* after it is the db persisted after the first.
C6_Original ==
    /\ (SecondOfTwo /\ Planned) => plan = NoPlan
    /\ (SecondOfTwo /\ Returned) => blob = prev.blob

\* C6, as the code has it: the second of two consecutive calls that return
\* plans no AddFile and no RemoveFile, plans a RemoveDir only for a directory
\* outside the removal prefix that the first call planned and declined to
\* remove, and leaves the persisted db as the first call left it.
C6_SecondRunIdle ==
    /\ (SecondOfTwo /\ Planned) =>
          /\ plan.to_add = <<>>
          /\ plan.to_remove = <<>>
          /\ \A q \in Range(plan.to_remove_dir) :
                /\ ~startswith(q, REMOVE_PREFIX)
                /\ q \in Range(prev.plan.to_remove_dir)
                /\ \E i \in DOMAIN prev.log : prev.log[i] = Ev("warning", q, "rmdir")
    /\ (SecondOfTwo /\ Returned) => blob = prev.blob

\* the second call returns after a first call that pushed a file, and plans
\* again the directory the first call declined to remove
C6_Witness ==
    /\ SecondOfTwo /\ Returned
    /\ prev.plan.to_add # <<>>
    /\ plan.to_remove_dir # <<>>

\* C7: rsync() never deletes the sidecar db: <remote_folder>/files.pickle is
\* not planned for removal, and no 'rm' or 'rm -r' names it or a directory it
\* lies in.
C7_DbNeverDeleted ==
    /\ \A q \in Range(plan.to_remove) \cup Range(plan.to_remove_dir) :
          lower(q) # lower(blob_path)
    /\ \A i \in RmAt :
          /\ ~IsBlobPath(args.remote_folder, log[i].path)
          /\ ~startswith(lower(blob_path), lower(log[i].path) \o <<"/">>)

\* a call that walked the device, where the db was listed beside a file to
\* remove, has removed the file and returned with the db in place
C7_Witness ==
    /\ run = 1 /\ ~args.fast
    /\ prev.blob.state = "ok"
    /\ \E i \in RmAt : dirname(log[i].path) = args.remote_folder
    /\ Returned /\ blob.state = "ok"

\* the directory at position i of to_remove_dir has been dealt with
DirDone(i) ==
    \/ pc = "rmdirs" /\ idx > i
    \/ pc \in {"rmfiles", "adds", "autosave", "final"}
    \/ Returned

\* C8: no 'rm -r' is issued for a path that does not start with the removal
\* prefix '/sdcard/dfp'; a planned RemoveDir of such a path gets one warning,
\* and the call goes on: when it returns, every file of to_remove has had its
\* 'rm' and every item of to_add its push.
C8_DeletionGuard ==
    /\ \A i \in DOMAIN log :
          (log[i].e = "shell" /\ log[i].x = "rm -r") => startswith(log[i].path, REMOVE_PREFIX)
    /\ \A i \in DOMAIN plan.to_remove_dir :
          LET q == plan.to_remove_dir[i]
              warned == Cardinality({j \in DOMAIN log : log[j] = Ev("warning", q, "rmdir")})
          IN  ~startswith(q, REMOVE_PREFIX) =>
                 /\ warned <= 1
                 /\ DirDone(i) => warned = 1
    /\ Returned =>
          /\ \A q \in Range(plan.to_remove) : \E i \in DOMAIN log : log[i] = Ev("shell", q, "rm")
          /\ \A it \in Range(plan.to_add) : Pushed(log, it)

\* a call warned of a directory outside the prefix, pushed a file after that
\* and returned
C8_Witness ==
    /\ Returned
    /\ \E i \in DOMAIN log :
          /\ log[i].e = "warning"
          /\ ~startswith(log[i].path, REMOVE_PREFIX)
          /\ \E j \in FileSendAt : i < j

\* C9: with trial_run, rsync() sends no SEND, issues no shell command, writes
\* no db checkpoint and opens no session for the execute phase; the remote
\* tree and the remote db stay as they were.
C9_TrialRunPure ==
    args.trial_run =>
        /\ \A i \in DOMAIN log : log[i].e \notin {"SEND", "status", "shell"}
        /\ sessions.exec.state = "none"
        /\ remote = prev.remote
        /\ blob = prev.blob

\* a trial run has returned with files to add and something to remove
C9_Witness ==
    /\ args.trial_run
    /\ pc = "done" /\ outcome = "ok"
    /\ plan.to_add # <<>>
    /\ plan.to_remove # <<>> \/ plan.to_remove_dir # <<>>

\* the session is torn down: QUIT was tried, the socket is closed, and the
\* with-statement ended as its body ended
Released(s) == s.state = "closed" /\ s.quit \in {"sent", "failed"} /\ s.seen = s.body

\* C10: a sync session is released on every way out of its with-statement:
\* once the body has ended, normally or raising, QUIT has been tried and the
\* socket closed, and a socket.error of the teardown does not replace what the
\* body ended with; rsync() ends as the body of its with-block ended.
C10_SessionReleased ==
    /\ \A o \in Owners :
          \/ sessions[o].body \in {"none", "running"}
          \/ o = "exec" /\ pc = "exit"
          \/ Released(sessions[o])
    /\ pc = "done" =>
          /\ sessions.exec.body # "running"
          /\ sessions.exec.state # "none" => outcome = sessions.exec.body

\* a call has returned though the QUIT of its with-block failed on a dropped
\* connection, after a _get_db whose body raised AdbError
C10_Witness ==
    /\ pc = "done" /\ outcome = "ok"
    /\ sessions.exec.quit = "failed" /\ sessions.exec.body = "ok"
    /\ sessions.get_db.body = "AdbError" /\ sessions.get_db.state = "closed"

\* a session that is there holds the device's sync connection
IsOpen(s) == s.state = "open"

\* C11: at most one sync session is open at a time: the session of _get_db and
\* the session of the remote walk have each sent QUIT and closed by the time
\* the session of the execute phase is opened.
C11_Original ==
    /\ Cardinality({o \in Owners : IsOpen(sessions[o])}) <= 1
    /\ sessions.exec.state # "none" =>
          /\ sessions.get_db.state = "closed" /\ sessions.get_db.quit = "sent"
          /\ sessions.walk.state \in {"none", "closed"}
          /\ sessions.walk.state = "closed" => sessions.walk.quit = "sent"

\* a _recvall that still wants bytes of a peer that has closed the connection
\* with none left to hand over
ClosedEarly == host.pc = "recv" /\ host.remain > 0 /\ host.peer = <<>> /\ host.eof

\* C12: an exact-length read always finishes: when the peer closes the
\* connection before the n bytes have arrived the read fails with a transport
\* error; it never loops forever on a closed connection.
C12_Original == ClosedEarly ~> (host.pc = "raised" /\ host.raised = "socket.error")

\* what the push has written and read after its SEND request
AfterSend ==
    LET at == {i \in DOMAIN push.wire : push.wire[i].id = "SEND"}
    IN  IF at = {} THEN <<>>
        ELSE SubSeq(push.wire, (CHOOSE i \in at : TRUE) + 1, Len(push.wire))

IsData(f) == f.io = "send" /\ f.id = "DATA"
IsDone(f) == f.io = "send" /\ f.id = "DONE"

\* C13: after the SEND request a push writes the source as DATA frames in
\* source order, each of at most 64 KiB, each starting where the one before
\* ended; then one DONE frame, written only when the DATA frames add up to
\* the whole source; and only then reads the status frame.
C13_PushFrames ==
    LET t == AfterSend
    IN  /\ Cardinality({i \in DOMAIN push.wire : push.wire[i].id = "SEND"}) <= 1
        /\ \A j \in DOMAIN t :
              \/ /\ IsData(t[j])
                 /\ t[j].y >= 1 /\ t[j].y <= SYNC_DATA_MAX
                 /\ IF j = 1 THEN t[j].x = 0
                    ELSE IsData(t[j - 1]) /\ t[j].x = t[j - 1].x + t[j - 1].y
              \/ /\ IsDone(t[j])
                 /\ \A k \in 1..(j - 1) : IsData(t[k])
                 /\ push.size = IF j = 1 THEN 0 ELSE t[j - 1].x + t[j - 1].y
              \/ /\ t[j] = Rd("status")
                 /\ j = Len(t) /\ j > 1 /\ IsDone(t[j - 1])
        /\ push.pc = "returned" => t # <<>> /\ t[Len(t)] = Rd("status")

\* a push of a source one byte longer than a frame may be has returned: a full
\* DATA frame, a DATA frame of one byte, DONE, and the status read
C13_Witness ==
    /\ push.pc = "returned" /\ push.size = SYNC_DATA_MAX + 1
    /\ Len(AfterSend) = 4
    /\ AfterSend[1] = Wr("DATA", 0, SYNC_DATA_MAX)
    /\ AfterSend[2] = Wr("DATA", SYNC_DATA_MAX, 1)
    /\ IsDone(AfterSend[3])

\* C14: the mode in the SEND body is the source file's mode when the source is
\* a local path, and 0644 when it is a byte-stream; the DONE frame carries the
\* local file's mtime for a path and 0 for a byte-stream.
C14_Original ==
    \A i \in DOMAIN push.wire :
        LET f == push.wire[i]
        IN  /\ f.id = "SEND" =>
                  f.x = IF push.src = "path" THEN push.st_mode ELSE stream_mode
            /\ IsDone(f) =>
                  f.x = IF push.src = "path" THEN push.st_mtime ELSE stream_mtime

\* the mtime the comparison holds against the local one: the observed remote
\* mtime when does_mtime_work() is true, else the db's, or 0 without an entry
TrackedMtime ==
    IF cmp.can_use_mtime THEN cmp.r.mtime
    ELSE IF cmp_key \in DOMAIN cmp.db THEN cmp.db[cmp_key][1] ELSE 0

\* the distance of the local mtime from the tracked one
MtimeGap ==
    IF cmp.l.mtime >= TrackedMtime THEN cmp.l.mtime - TrackedMtime
    ELSE TrackedMtime - cmp.l.mtime

\* C15: a file present on both sides is planned as an add exactly when the
\* sizes differ or the local mtime is more than 5 seconds from the tracked
\* remote mtime; a file that is not planned keeps its db entry.
C15_DifferentIffSizeOrMtime ==
    cmp.pc = "done" =>
        /\ (cmp.to_add # <<>>) <=> (cmp.l.size # cmp.r.size \/ MtimeGap > 5)
        /\ cmp.to_add # <<>> =>
              Len(cmp.to_add) = 1 /\ cmp.to_add[1].l_dirent = cmp.l
        /\ cmp.to_add = <<>> /\ cmp_key \in DOMAIN cmp.db =>
              cmp.new_db = put(EmptyDict, cmp_key, cmp.db[cmp_key])

\* equal sizes and a gap of exactly five seconds to the db's mtime, the remote
\* mtime being far off and not trusted: no add, and the entry is carried forward
C15_Witness ==
    /\ cmp.pc = "done" /\ ~cmp.can_use_mtime
    /\ cmp.l.size = cmp.r.size /\ MtimeGap = 5 /\ cmp.r.mtime = 0
    /\ cmp_key \in DOMAIN cmp.db
    /\ cmp.to_add = <<>> /\ cmp.new_db = cmp.db

\* C16: loading the sidecar db never fails the sync: with the blob absent, or
\* present but not decodable, the db is empty and rsync() goes on to its plan.
C16_Original ==
    pc # "plan" /\ blob.state # "ok" =>
        /\ db = EmptyDict
        /\ outcome \in {"none", "ok"}
        /\ sessions.get_db.state = "closed"

\* the items of the plan that add a file of the local directory to the remote one
AddsAt(l_root, r_root) ==
    {i \in DOMAIN plan.to_add :
        plan.to_add[i].l_root = l_root /\ plan.to_add[i].r_root = r_root}

\* C19: the two planning walks stay in lockstep: the assertion of the planning
\* loop never fails, whatever the local tree and the remote tree or db are.
C19_Lockstep == pc # "plan" => outcome # "AssertionError"

\* a walk of the device has been planned that paired 'd/g' with 'D/G' two
\* levels down, went into a directory 'f' the device has not, and left out a
\* directory 'e' the local folder has not
C19_Witness ==
    /\ pc # "plan" /\ outcome \in {"none", "ok"} /\ ~args.fast
    /\ AddsAt(fmt_join(local_folder, <<"d", "/", "g">>),
              fmt_join(args.remote_folder, <<"D", "/", "G">>)) # {}
    /\ AddsAt(fmt_join(local_folder, <<"f">>),
              fmt_join(args.remote_folder, <<"f">>)) # {}
    /\ plan.to_remove_dir = <<fmt_join(args.remote_folder, <<"e">>)>>

\* the pairs of local files of one directory whose names differ only in case
CaseConflicts ==
    {pair \in local \X local :
        /\ pair[1] # pair[2] /\ pair[1].parent = pair[2].parent
        /\ S_ISREG(pair[1].mode) /\ S_ISREG(pair[2].mode)
        /\ lower(pair[1].name) = lower(pair[2].name)}

\* C20: when a local directory holds two files whose names differ only in
\* case, the planning walk reports the conflict through the warning callback.
C20_Original ==
    pc # "plan" /\ outcome \in {"none", "ok"} =>
        \A pair \in CaseConflicts :
            \E i \in DOMAIN log :
                /\ log[i].e = "warning"
                /\ lower(log[i].path) = lower(posixjoin(pair[1].parent, pair[1].name))

\* C17: a host command succeeds only on OKAY: adb_send_command returns iff
\* the status read is OKAY; on FAIL it reads the message behind its hex4
\* length, closes the connection and raises AdbError with exactly the message
\* the server sent; on any other tag it closes the connection and raises.
C17_SendCommand ==
    /\ host.pc # "idle" =>
          /\ host.cmd = "returned" <=> host.stat = OKAY
          /\ host.cmd = "raised" =>
                /\ host.pc = "raised" /\ host.raised = "AdbError"
                /\ host.sock = "closed"
                /\ host.stat = FAIL => host.err = host.msg
                /\ host.stat # FAIL => host.err = bad_response(host.stat)
          /\ host.stat = FAIL /\ host.cmd # "raised" =>
                host.pc = "recv" /\ host.want \in {"fail_size", "fail_msg"}
          /\ host.stat \notin {<<>>, OKAY, FAIL} => host.cmd = "raised"

\* a FAIL with a message of ten bytes, its length written '000a': the command
\* has raised AdbError with that message, the socket closed
C17_Witness ==
    /\ host.pc = "raised" /\ host.cmd = "raised" /\ host.stat = FAIL
    /\ Len(host.msg) = 10 /\ host.err = host.msg
    /\ host.sock = "closed"

\* C18: the connection of a host-level command that is not switched into
\* transport mode is closed by the time the operation returns or raises.
C18_Original ==
    host.pc \in {"returned", "raised"} /\ host.sock # "none" => host.sock = "closed"

\* the local regular files, and the key of one: its path relative to
\* local_folder, in lower case
LocalFiles == {e \in local : S_ISREG(e.mode)}
rel_key(e) == lower(slice_from(posixjoin(e.parent, e.name), Len(local_folder) + 1))

\* the keys of the regular files the planning finds on its right-hand side: the
\* device's tree as it was when the call began or, in a fast call, the db
RightKeys ==
    IF args.fast THEN DOMAIN db
    ELSE {lower(slice_from(fmt_join(e.parent, e.name), Len(args.remote_folder) + 1)) :
            e \in {r \in prev.remote : S_ISREG(r.mode)}}

\* the positions of to_add that hold the local file
AddsOf(e) ==
    {i \in DOMAIN plan.to_add :
        plan.to_add[i].l_root = e.parent /\ plan.to_add[i].l_dirent.name = e.name}

\* C21: every local regular file with no case-insensitive counterpart on the
\* remote side, the files under a local directory missing there included, is
\* planned as exactly one AddFile, and a missing directory is no work item;
\* after a call that returns, the persisted db has one key per local regular
\* file, its relative path in lower case, with the file's mtime and size.
C21_Original ==
    /\ (Planned /\ outcome \in {"none", "ok"}) =>
          /\ \A e \in LocalFiles :
                rel_key(e) \notin RightKeys => Cardinality(AddsOf(e)) = 1
          /\ \A it \in Range(plan.to_add) : S_ISREG(it.l_dirent.mode)
    /\ Returned =>
          /\ blob.state = "ok"
          /\ \A e \in LocalFiles : <<rel_key(e), e.mtime, e.size>> \in blob.items
          /\ Cardinality(blob.items) = Cardinality(LocalFiles)

\* the keys of the local directories, the root's empty key among them
LocalDirKeys == {<<>>} \cup {rel_key(e) : e \in {d \in local : S_ISDIR(d.mode)}}

\* the key of a path below remote_folder
key_of_path(q) == lower(slice_from(q, Len(args.remote_folder) + 1))

\* the keys of the regular files the right-hand walk lists in a directory that
\* is paired with a local one, and that no local file has
ExtraKeys ==
    {k \in RightKeys : k \notin {rel_key(e) : e \in LocalFiles} /\ dirname(k) \in LocalDirKeys}

\* the keys of the files the planning found unchanged and the db knew
UnchangedKeys ==
    {k \in RightKeys \cap DOMAIN db :
        /\ k \in {rel_key(e) : e \in LocalFiles}
        /\ \A it \in Range(plan.to_add) : key_of(it) # k}

FailAt == {i \in DOMAIN log : log[i].e = "status" /\ log[i].x \in {"db FAIL", "file FAIL"}}

\* nothing is sent to the device after position i of the log, and the call
\* ends raising AdbError with its session torn down
AbortsAt(i) ==
    /\ \A j \in DOMAIN log : j > i => log[j].e \notin {"SEND", "status", "shell"}
    /\ pc \in {"exit", "done"}
    /\ pc = "done" =>
          /\ outcome = "AdbError"
          /\ Released(sessions.exec)
          /\ \E j \in DOMAIN log : j > i /\ log[j].e = "QUIT"

\* the db on the device is the last checkpoint the call has written, or the
\* db the call found if it has written none
LastCheckpoint ==
    IF DbOkayAt = {} THEN blob = prev.blob
    ELSE blob.state = "ok" /\ blob.items \subseteq dumps(new_db).items

\* C23: when a push is answered with a failure status, rsync() aborts: no
\* further push, 'rm' or db checkpoint is issued after the failure, the
\* teardown of the session (QUIT, close) still runs, and the db persisted on
\* the device is the last checkpoint written before the failure.
C23_Original == \A i \in FailAt : AbortsAt(i) /\ LastCheckpoint

\* the local entries that cannot be read: os.stat fails, or open does
Unreadable == {e \in local : e.mode \in {S_NOSTAT, S_IFREG_0000}}

\* C24: a local file that cannot be read is not fatal, in the local walk and
\* in the push alike: it raises nothing out of rsync(), it is reported through
\* the warning callback and skipped, and the remaining work items are
\* executed, so that the call returns with every readable planned file pushed.
C24_Original ==
    /\ \A i \in DOMAIN log : log[i].e # "raise" \/ log[i].x # "IOError"
    /\ outcome # "IOError"
    /\ \A e \in Unreadable :
          (pc = "done" /\ \E it \in Range(plan.to_add) : Pushed(log, it)) =>
             /\ \E i \in DOMAIN log :
                   log[i].e = "warning" /\ log[i].path = posixjoin(e.parent, e.name)
             /\ \A i \in FileSendAt : key_of_path(log[i].path) # rel_key(e)

\* the pull has ended, returning or raising
PullEnded == pull.pc \in {"returned", "raised"}

\* the device has the file and sends it whole, and the host can write
PullCanSucceed ==
    /\ pull.mode # 0 /\ stat_S_ISREG(pull.mode)
    /\ pull.prior.kind # "dir"
    /\ pull.writable
    /\ pull.reply[Len(pull.reply)] = "DONE"

\* C25: a pull to a path of the file system is all or nothing: on success the
\* target holds the pulled content, whether or not there was a target before;
\* on any failure the target is as it was; in both cases no '<target>.part'
\* is left.  A pull the device serves whole, onto a target that is a file or
\* is not there, succeeds.
C25_Original ==
    /\ pull.pc = "returned" =>
          pull.local_file = File(data_of(pull.reply)) /\ pull.tmp_file = NoFile
    /\ pull.pc = "raised" =>
          pull.local_file = pull.prior /\ pull.tmp_file = NoFile
    /\ (PullEnded /\ PullCanSucceed) => pull.pc = "returned"

\* the plan a planning comes to
PlanOf(p) == [to_add |-> p.to_add, to_remove |-> p.to_remove,
              to_remove_dir |-> p.to_remove_dir]

\* a device tree that has nothing in common with the local folder
OtherRemote == {Entry(args.remote_folder, <<"z">>, S_IFREG, 3, 10)}

\* C26: in a fast call the planning takes its right-hand walk from the pulled
\* db alone: it opens no session for a remote walk and sends no LIST, and the
\* plan is a function of the local tree and the db, the same whatever the
\* device's tree holds.
C26_FastPlansFromDb ==
    (args.fast /\ Planned /\ run = 1) =>
        /\ \A i \in DOMAIN log : log[i].e # "LIST"
        /\ sessions.walk.state = "none"
        /\ outcome \in {"none", "ok"} =>
              /\ plan = PlanOf(planning(local, {}, prev.blob, args, device))
              /\ plan = PlanOf(planning(local, OtherRemote, prev.blob, args, device))

\* a fast call has made, from a db that has entries, a plan that a walk of
\* the device's tree would not have made
C26_Witness ==
    /\ args.fast /\ Planned /\ run = 1 /\ outcome \in {"none", "ok"}
    /\ prev.blob.state = "ok" /\ prev.blob.items # {}
    /\ plan # NoPlan
    /\ plan # PlanOf(planning(local, remote, prev.blob, [args EXCEPT !.fast = FALSE], device))

\* the positions of the session's frames that hold a request: STAT, SEND or
\* LIST, and the QUIT of a session that no interruption cut short
WireReqAt ==
    {i \in DOMAIN wire.frames :
        /\ wire.frames[i].io = "send"
        /\ \/ wire.frames[i].id \in {"STAT", "SEND", "LIST"}
           \/ wire.frames[i].id = "QUIT" /\ wire.raised # "KeyboardInterrupt"}

\* the frames between the request at i and the frame at j are the whole of
\* the request's exchange: the stat frame of a STAT; the DATA frames, the DONE
\* and the status frame of a SEND; the DENT frames and the DONE of a LIST
WholeExchange(fr, i, j) ==
    CASE fr[i].id = "STAT" -> j = i + 2 /\ fr[i + 1] = Rd("stat")
      [] fr[i].id = "SEND" ->
            /\ j >= i + 3
            /\ fr[j - 1] = Rd("status")
            /\ fr[j - 2] = Wr("DONE", fr[i].x, 0)
            /\ \A k \in (i + 1)..(j - 3) : fr[k] = Wr("DATA", fr[i].x, 0)
      [] fr[i].id = "LIST" ->
            /\ j >= i + 2
            /\ fr[j - 1] = Rd("DONE")
            /\ \A k \in (i + 1)..(j - 2) : fr[k] = Rd("DENT")
      [] OTHER -> FALSE

\* C27: operations never interleave on a sync session: when a request is
\* written, the exchange of the request before it is complete.  So the SEND
\* of a db checkpoint is never written between the SEND of a file and its
\* status frame, and in the remote walk the reply to a LIST has been read up
\* to its DONE when the next LIST is sent.
C27_NoInterleaving ==
    \A i, j \in WireReqAt :
        (i < j /\ \A k \in WireReqAt : ~(i < k /\ k < j)) => WholeExchange(wire.frames, i, j)

\* a remote walk has sent a second LIST after a reply of several DENT frames
WalkListedTwice ==
    /\ wire.kind = "walk" /\ wire.pc = "closed" /\ wire.raised = "none"
    /\ \E i, j \in WireReqAt :
          /\ j > i + 4
          /\ wire.frames[i].id = "LIST" /\ wire.frames[j].id = "LIST"
          /\ \A k \in (i + 1)..(j - 1) : wire.frames[k].io = "recv"

\* a with-block has pushed two files with an autosave of the db between them,
\* and has left the block after its final checkpoint
C27_Witness ==
    /\ wire.kind = "exec" /\ wire.pc = "closed" /\ wire.raised = "none"
    /\ \E i, j, k \in WireReqAt :
          /\ i < j /\ j < k
          /\ wire.frames[i] = Wr("SEND", "file", 0)
          /\ wire.frames[j] = Wr("SEND", "db", 0)
          /\ wire.frames[k] = Wr("SEND", "file", 0)

\* C28: the framing round trip of the data frames, DATA with any payload and
\* DONE with any mtime: decoding the encoded bytes yields the frame that was
\* encoded, its id and its payload (none for DONE), and consumes exactly the
\* encoded bytes, leaving what follows on the stream.
C28_Original ==
    codec.pc = "received" =>
        /\ codec.out[1].raised = "none"
        /\ codec.out[1].id = codec.id
        /\ codec.out[1].data = codec.data
        /\ codec.out[1].used = Len(codec.bytes)

\* the lines of the reply that are not empty
ReplyLines == SelectSeq(split_lines(parse.reply), LAMBDA line : line # <<>>)

\* the line after its first three fields and the whitespace that follows them
RECURSIVE tail_after(_, _)
tail_after(line, fields) ==
    LET t == lstrip(line)
    IN  IF fields = 0 THEN t
        ELSE tail_after(SubSeq(t, word_len(t) + 1, Len(t)), fields - 1)

\* C29: the parsing of the device list yields one device for each line of the
\* reply that is not empty, with serial and state the first two fields
\* between whitespace, devpath the third field or empty, and notes the rest
\* of the line after the third field, empty only when there is no rest.
C29_Original ==
    parse.pc = "returned" =>
        /\ Len(parse.devices) = Len(ReplyLines)
        /\ \A i \in DOMAIN ReplyLines :
              LET fields == split(ReplyLines[i], Len(ReplyLines[i]))
                  dev == parse.devices[i]
              IN  /\ dev.serial = fields[1]
                  /\ dev.state = fields[2]
                  /\ dev.devpath = IF Len(fields) >= 3 THEN fields[3] ELSE <<>>
                  /\ dev.notes = tail_after(ReplyLines[i], 3)

\* the pushes of files the current call attempted: sync_push was called, and
\* either sent SEND or raised on the directory it found at the remote path
PushAttemptAt ==
    {j \in DOMAIN log : IsSend(log[j], "file")
                        \/ (log[j].e = "raise" /\ log[j].x = "is S_ISDIR")}

\* the remote path was a directory when the current call made its plan
WasDirAtPlan(q) == \E e \in Lookup(prev.remote, q) : S_ISDIR(e.mode)

\* 'rm -r' of the remote path was issued before position j of the log
RemovedBefore(q, j) ==
    \E i \in 1..(j - 1) : /\ log[i].e = "shell" /\ log[i].x = "rm -r"
                          /\ lower(log[i].path) = lower(q)

C30_RefusedDirBlocks ==
    \E j \in PushAttemptAt :
        /\ log[j].x = "is S_ISDIR"
        /\ \E i \in 1..(j - 1) : log[i] = Ev("warning", log[j].path, "rmdir")

\* the bytes of the frames, one after the other
RECURSIVE Joined(_)
Joined(fs) == IF fs = <<>> THEN <<>> ELSE Head(fs) \o Joined(Tail(fs))

\* C31, as stated: every frame the client writes reaches the wire complete and
\* contiguous, even when the socket takes only part of a write: the bytes on
\* the wire are the bytes of the frames written, whole and in order.
C31_Original ==
    outgoing.pc = "open" => outgoing.sent = Joined(outgoing.frames)

\* as long as the socket took all of every write, the wire has the frames whole
FramesWholeUnlessShort ==
    (outgoing.pc = "open" /\ ~outgoing.short) => outgoing.sent = Joined(outgoing.frames)

\* a push was written to the end, and every write was taken whole
PushWrittenWhole ==
    /\ outgoing.pc = "open" /\ ~outgoing.short
    /\ outgoing.calls = <<>> /\ Len(outgoing.frames) = 3
====
